---------------------------- MODULE Spec2Model ----------------------------
(***************************************************************************)
(* Model of interactive-feedback-mcp (Node.js).                            *)
(*                                                                         *)
(*   Spec     one tools/call served end to end: MCPServer.handleToolsCall, *)
(*            launchFeedbackUI (the Process Bridge), the spawned web-ui.js *)
(*            process (the UI Session Server) with its ProcessManager, and *)
(*            the handoff file between them.                               *)
(*   SpecRun  MCPServer.run: the stdin 'data' handler, line by line, with  *)
(*            handleRequest's dispatch.                                    *)
(*                                                                         *)
(* Texts are sequences of tokens ("" is << >>); a JSON document is the     *)
(* sequence of its <<key, value>> members, an object a function on keys.   *)
(***************************************************************************)
EXTENDS Integers, Sequences, FiniteSets, Bags, TLC

\* ------------------------------------------------------------------ bounds
MaxSubmits == 2     \* submit-feedback requests the browser sends in a session
MaxLog     == 1     \* chunks the Command Runner logs in a session
MaxRuns    == 3     \* commands run under one Command Runner
MaxOut     == 1     \* output chunks the commands produce
MaxData    == 2     \* 'data' events on stdin
MaxLines   == 2     \* lines in one stdin chunk
MaxLen     == 3     \* characters in project_directory and in summary
MaxDepth   == 3     \* components in the path given to browse-files
MaxChanges == 2     \* ports that change hands while the server starts
MaxSaves   == 2     \* POST /api/config requests
MaxCalls   == 2     \* tools/call requests in flight at once
MaxServers == 3     \* UI Session Server processes on one machine
MaxWsRuns  == 1     \* commands run in a session watched over a WebSocket
MaxMsgs    == 2     \* messages the client writes on stdin

\* ------------------------------------------------------- program constants
ParseErrorCode     == -32700
InvalidRequestCode == -32600
MethodNotFoundCode == -32601
InvalidParamsCode  == -32602
InternalErrorCode  == -32603
StartPort          == 3636
MaxAttempts        == 10

\* -------------------------------------------------------------------- JSON
\* The value of a property that is absent from the posted body.
Undefined == <<"#undefined">>

KeyOrder == <<"command_logs", "interactive_feedback">>

\* JSON.stringify of an object: members in key order; a member whose value is
\* undefined is left out.
JsonStringify(obj) ==
    LET present(k) == k \in DOMAIN obj /\ obj[k] # Undefined
        pairs == [i \in 1..Len(KeyOrder) |-> <<KeyOrder[i], KeyOrder[i]>>]
        kept  == SelectSeq(pairs, LAMBDA p : present(p[1]))
    IN  [i \in 1..Len(kept) |-> <<kept[i][1], obj[kept[i][1]]>>]

\* JSON.parse of a document: the object with the members the text lists.
JsonParse(text) ==
    [k \in {text[i][1] : i \in DOMAIN text} |->
        (CHOOSE v \in {text[i][2] : i \in DOMAIN text} :
            \E i \in DOMAIN text : text[i] = <<k, v>>)]

\* The handoff file (os.tmpdir()/feedback-<uuid>.json).
NoFile          == [state |-> "absent",   text |-> << >>]
TruncatedFile   == [state |-> "partial",  text |-> << >>]
WrittenFile(t)  == [state |-> "complete", text |-> t]

\* ------------------------------------------------------------------- state
VARIABLES
    \* Protocol Server, one tools/call
    request,        \* the request given to handleToolsCall
    stdout,         \* the responses sendMessage wrote for it
    \* Process Bridge (launchFeedbackUI)
    bridge,         \* position in launchFeedbackUI
    bridgeError,    \* the error caught at line 83 and rethrown at line 90
    bridgeResult,   \* the object readJson returned
    handoff,        \* the handoff file
    \* UI Session Server process (web-ui.js)
    child,          \* "none", "loading", "starting", "listening", "exited"
    childCode,      \* exit code seen by 'close': "0", "1", "null" (killed)
    feedbackResult, \* this.feedbackResult
    inflight,       \* the submit-feedback handlers in flight (a bag)
    closeTimers,    \* pending setTimeout(() => this.close(), 1000)
    \* ProcessManager
    logBuffer, isRunning, currentProcess, procs,
    emitted,        \* the processStatus events emitted so far
    wsOpen,         \* a WebSocket client is connected, its listeners registered
    wsSent,         \* the messages sent to that client
    kids,           \* the processes a command has spawned itself
    platform,       \* os.platform()
    \* history
    hist,
    \* MCPServer.run (SpecRun)
    initialized,        \* this.initialized
    clientCapabilities, \* this.clientCapabilities
    cur,                \* the 'data' handler on the event loop, or the last one
    waiting,            \* the 'data' handlers suspended in a tools/call
    runHist,
    \* interactiveFeedback
    toolArgs,           \* project_directory and summary of the call
    childArgs,          \* what launchFeedbackUI is given for the child
    \* GET /api/browse-files
    browseReq,          \* req.query.path, as its components
    browseRes,          \* the response
    \* WebUIServer.start
    busy,               \* the ports of the range that are bound
    attempt,            \* i of the loop of findAvailablePort
    availablePort,      \* what findAvailablePort returned (0: nothing yet)
    listenPort,         \* this.port (0: not listening)
    startResult,        \* "pending", "listening", "failed"
    portHist,
    \* ConfigManager
    managers,           \* projectDirectory of the ConfigManager of each session
    configFiles,        \* the files of the config directory
    cfgRes,             \* the last answer of /api/config
    cfgHist,            \* the saves so far
    saving,             \* the saveConfig calls between their load and their write
    \* several tools/call at once
    calls,              \* each call: its bridge, its child, its response
    tmpFiles,           \* the handoff files in os.tmpdir(), by uuid
    \* several UI Session Servers on one machine
    servers,            \* each server process: where it stands
    feedbackJson,       \* <install dir>/data/feedback.json
    configAnswer,       \* the last answer of GET /api/config
    stdin,              \* the chunks of stdin that have not arrived yet
    sent,               \* the responses written for the chunks that have
    stream              \* the messages the client wrote, in order

serverVars  == <<request, stdout>>
bridgeVars  == <<bridge, bridgeError, bridgeResult>>
childVars   == <<child, childCode, feedbackResult, inflight, closeTimers>>
runnerVars  == <<logBuffer, isRunning, currentProcess, procs, emitted, wsOpen, wsSent,
                 kids, platform>>
sessionVars == <<serverVars, bridgeVars, handoff, childVars, runnerVars, hist>>
runVars     == <<initialized, clientCapabilities, cur, waiting, runHist>>
feedbackVars == <<toolArgs, childArgs>>
browseVars == <<browseReq, browseRes>>
portVars == <<busy, attempt, availablePort, listenPort, startResult, portHist>>
configVars == <<managers, configFiles, cfgRes, cfgHist, saving>>
callVars == <<calls, tmpFiles>>
sharedVars == <<servers, feedbackJson, configAnswer>>
stdinVars == <<stdin, sent, stream>>
auxVars == <<feedbackVars, browseVars, portVars, configVars, callVars, sharedVars, stdinVars>>
vars == <<sessionVars, runVars, auxVars>>


\* --------------------------------------------------------- ProcessManager
Procs == 1..MaxRuns

RECURSIVE Join(_)
\* Array.prototype.join(''): the chunks of the buffer, concatenated.
Join(chunks) == IF chunks = << >> THEN << >> ELSE Head(chunks) \o Join(Tail(chunks))

pm == [logBuffer |-> logBuffer, isRunning |-> isRunning,
       currentProcess |-> currentProcess, procs |-> procs, emitted |-> emitted,
       wsOpen |-> wsOpen, wsSent |-> wsSent, kids |-> kids]

NoStatus == [running |-> FALSE, proc |-> 0, why |-> "none"]

\* A message to the WebSocket client: 'logs' and 'log' carry text,
\* 'processStatus' carries the event.
Message(type, data, status) == [type |-> type, data |-> data, status |-> status]

\* ws.send in onLog and onProcessStatus (872-884), the listeners of a
\* connected client.
wsSend(m, msg) == IF m.wsOpen THEN [m EXCEPT !.wsSent = Append(@, msg)] ELSE m

\* this.emit('log', text)
emitLog(m, text) == wsSend(m, Message("log", text, NoStatus))

addLogSilent(m, text) == [m EXCEPT !.logBuffer = Append(@, text)]

\* addLog (178-181): logBuffer.push(text), emit('log', text)
addLog(m, text) == emitLog([m EXCEPT !.logBuffer = Append(@, text)], text)

getLogsEmpty(m) == << >>

\* getLogs (187-189): this.logBuffer.join('')
getLogs(m) == Join(m.logBuffer)

\* clearLogs (194-198)
clearLogs(m) == emitLog([m EXCEPT !.logBuffer = << >>], << >>)

\* this.emit('processStatus', {running, ...}); proc is the command the event
\* is about (0: none was spawned).
emitStatus(m, running, p, why) ==
    wsSend([m EXCEPT !.emitted = Append(@, [running |-> running, proc |-> p, why |-> why])],
           Message("processStatus", << >>, [running |-> running, proc |-> p, why |-> why]))

Platforms == {"win32", "linux"}

\* The options of spawn in runCommand (59-62) name cwd and stdio only:
\* detached is left at its default, so the shell of a command stays in the
\* process group of the UI Session Server and leads no group of its own.
detached == FALSE

\* killProcessTree(pid) (154-172): the process is signalled and closes
\* later.  On win32 taskkill /t /f ends the tree.  Elsewhere
\* process.kill(-pid) signals the group whose id is pid; there is such a
\* group only when the shell was spawned detached, otherwise the call throws
\* ESRCH and the catch signals the one process pid.
killProcessTree(m, p) ==
    LET tree == platform = "win32" \/ detached IN
    [m EXCEPT !.procs[p] = IF @ = "alive" THEN "killed" ELSE @,
              !.kids[p] = IF tree /\ @ = "alive" THEN "killed" ELSE @]

stopCommand(m) ==
    IF m.currentProcess = 0 \/ ~m.isRunning
    THEN m
    ELSE emitLog(emitStatus(addLog([killProcessTree(m, m.currentProcess)
                                        EXCEPT !.currentProcess = 0, !.isRunning = FALSE],
                                   <<"stopped">>),
                            FALSE, m.currentProcess, "stopped"),
                 <<"stopped">>)

\* runCommand (37-117).  spawn either starts process p ("ok"), or returns a
\* process that reports 'error' later ("error"), or throws ("throws") and the
\* catch at 108 runs.
runCommand(m, p, outcome) ==
    LET m1 == IF m.isRunning THEN stopCommand(addLog(m, <<"already">>)) ELSE m
        m2 == addLog(m1, <<"$cmd">>)
    IN  IF outcome = "throws"
        THEN emitLog(emitStatus(addLog([m2 EXCEPT !.procs[p] = "notspawned",
                                                  !.isRunning = FALSE, !.currentProcess = 0],
                                       <<"launcherror">>),
                                FALSE, 0, "error"),
                     <<"launcherror">>)
        ELSE emitStatus([m2 EXCEPT !.procs[p] = IF outcome = "ok" THEN "alive" ELSE "failing",
                                   !.currentProcess = p, !.isRunning = TRUE],
                        TRUE, p, "started")

\* The 'data' listeners (69-80): addLog(text), emit('log', text)
onData(m) == emitLog(addLog(m, <<"out">>), <<"out">>)

\* The 'close' listener (83-92) of process p.
onClose(m, p) ==
    emitLog(emitStatus(addLog([m EXCEPT !.procs[p] = "closed", !.isRunning = FALSE,
                                        !.currentProcess = 0],
                              <<"exited">>),
                       FALSE, p, "close"),
            <<"exited">>)

\* The 'error' listener (95-104) of process p.
onError(m, p) ==
    emitLog(emitStatus(addLog([m EXCEPT !.procs[p] = "errored", !.isRunning = FALSE,
                                        !.currentProcess = 0],
                              <<"error">>),
                       FALSE, p, "error"),
            <<"error">>)

\* cleanup (211-229): stopCommand when running, clearLogs, removeAllListeners
cleanup(m) == [clearLogs(IF m.isRunning THEN stopCommand(m) ELSE m) EXCEPT !.wsOpen = FALSE]

SetPm(m) ==
    /\ logBuffer' = m.logBuffer
    /\ isRunning' = m.isRunning
    /\ currentProcess' = m.currentProcess
    /\ procs' = m.procs
    /\ emitted' = m.emitted
    /\ wsOpen' = m.wsOpen
    /\ wsSent' = m.wsSent
    /\ kids' = m.kids
    /\ UNCHANGED platform

\* ------------------------------------------------------ UI Session Server
\* What a posted body's "feedback" can be.
Feedbacks == {<< >>, <<"ok">>, <<"no">>, Undefined}

ChildRunning == child \in {"loading", "starting", "listening"}

\* web-ui.js 735-738
FeedbackResultSwapped(logs, feedback) ==
    [command_logs |-> feedback, interactive_feedback |-> logs]

FeedbackResultOf(logs, feedback) ==
    [command_logs |-> logs, interactive_feedback |-> feedback]

\* this.feedbackResult = null
NoResult == [command_logs |-> Undefined, interactive_feedback |-> Undefined]

One(h) == SetToBag({h})

\* The process ends with exit code `code`: its memory, its timers and the
\* handlers still in flight end with it; a file being written stays as far as
\* the write got.  The commands it spawned are separate processes.
Exit(code, m) ==
    /\ child' = "exited"
    /\ childCode' = code
    /\ feedbackResult' = NoResult
    /\ inflight' = EmptyBag
    /\ closeTimers' = 0
    /\ SetPm([m EXCEPT !.logBuffer = << >>, !.isRunning = FALSE,
                       !.currentProcess = 0, !.emitted = << >>,
                       !.wsOpen = FALSE, !.wsSent = << >>])
    /\ UNCHANGED handoff

CloseWithoutExit ==
    /\ closeTimers' = 0
    /\ SetPm(cleanup(pm))
    /\ UNCHANGED <<child, childCode, feedbackResult, inflight, handoff>>

\* WebUIServer.close() (939-950): wss.close, server.close,
\* processManager.cleanup(), process.exit(0).
Close == Exit("0", cleanup(pm))


\* The module has loaded: the signal handlers are registered (987-993) and
\* server.run() waits in start() for a port.
ChildBoot ==
    /\ child = "loading"
    /\ child' = "starting"
    /\ UNCHANGED <<serverVars, bridgeVars, handoff, childCode, feedbackResult,
                   inflight, closeTimers, runnerVars, hist>>
    /\ UNCHANGED <<runVars, auxVars>>

\* start() resolved: the server listens.
ChildListen ==
    /\ child = "starting"
    /\ child' = "listening"
    /\ UNCHANGED <<serverVars, bridgeVars, handoff, childCode, feedbackResult,
                   inflight, closeTimers, runnerVars, hist>>
    /\ UNCHANGED <<runVars, auxVars>>

\* start() failed (no port in the range, listen error): run() rejects and
\* the process exits with code 1 (1000-1003).
ChildStartFails ==
    /\ child = "starting"
    /\ Exit("1", pm)
    /\ UNCHANGED <<serverVars, bridgeVars, hist>>
    /\ UNCHANGED <<runVars, auxVars>>

\* SIGINT or SIGTERM: before the handlers are registered the default action
\* kills the process; afterwards the handler calls server.close().
ChildSignal ==
    /\ ChildRunning
    /\ IF child = "loading" THEN Exit("null", pm) ELSE Close
    /\ UNCHANGED <<serverVars, bridgeVars, hist>>
    /\ UNCHANGED <<runVars, auxVars>>

\* SIGKILL, or a crash of the process: no handler runs.
ChildKilled ==
    /\ ChildRunning
    /\ Exit("null", pm)
    /\ UNCHANGED <<serverVars, bridgeVars, hist>>
    /\ UNCHANGED <<runVars, auxVars>>

\* POST /api/run-command
RunCommand ==
    /\ child = "listening"
    /\ \E p \in Procs :
        /\ procs[p] = "unborn"
        /\ \A q \in Procs : q < p => procs[q] # "unborn"
        /\ \E outcome \in {"ok", "error", "throws"} :
                SetPm(runCommand(pm, p, outcome))
    /\ UNCHANGED <<serverVars, bridgeVars, handoff, child, childCode,
                   feedbackResult, inflight, closeTimers, hist>>
    /\ UNCHANGED <<runVars, auxVars>>

\* POST /api/stop-command
StopCommand ==
    /\ child = "listening"
    /\ SetPm(stopCommand(pm))
    /\ UNCHANGED <<serverVars, bridgeVars, handoff, child, childCode,
                   feedbackResult, inflight, closeTimers, hist>>
    /\ UNCHANGED <<runVars, auxVars>>

\* stdout/stderr 'data' of a command
ProcData ==
    /\ child = "listening"
    /\ hist.nOut < MaxOut
    /\ \E p \in Procs : procs[p] \in {"alive", "killed"}
    /\ SetPm(onData(pm))
    /\ hist' = [hist EXCEPT !.nOut = @ + 1]
    /\ UNCHANGED <<serverVars, bridgeVars, handoff, child, childCode,
                   feedbackResult, inflight, closeTimers>>
    /\ UNCHANGED <<runVars, auxVars>>

\* 'error' of a command that could not be spawned
ProcError ==
    /\ child = "listening"
    /\ \E p \in Procs :
        /\ procs[p] = "failing"
        /\ SetPm(onError(pm, p))
    /\ UNCHANGED <<serverVars, bridgeVars, handoff, child, childCode,
                   feedbackResult, inflight, closeTimers, hist>>
    /\ UNCHANGED <<runVars, auxVars>>

\* 'close' of a command
ProcClose ==
    /\ child = "listening"
    /\ \E p \in Procs :
        /\ procs[p] \in {"alive", "killed", "errored"}
        /\ SetPm(onClose(pm, p))
    /\ UNCHANGED <<serverVars, bridgeVars, handoff, child, childCode,
                   feedbackResult, inflight, closeTimers, hist>>
    /\ UNCHANGED <<runVars, auxVars>>

\* A running command spawns a process of its own.
ProcForks ==
    /\ child = "listening"
    /\ \E p \in Procs :
        /\ procs[p] = "alive"
        /\ kids[p] = "none"
        /\ kids' = [kids EXCEPT ![p] = "alive"]
    /\ UNCHANGED <<logBuffer, isRunning, currentProcess, procs, emitted, wsOpen, wsSent,
                   platform>>
    /\ UNCHANGED <<serverVars, bridgeVars, handoff, child, childCode,
                   feedbackResult, inflight, closeTimers, hist>>
    /\ UNCHANGED <<runVars, auxVars>>

\* wss 'connection' (862-885): the log buffer is sent, then the listeners of
\* 'log' and 'processStatus' are registered.
WsConnect ==
    /\ child = "listening"
    /\ ~wsOpen
    /\ wsOpen' = TRUE
    /\ wsSent' = <<Message("logs", getLogs(pm), NoStatus)>>
    /\ UNCHANGED <<logBuffer, isRunning, currentProcess, procs, emitted, kids, platform>>
    /\ UNCHANGED <<serverVars, bridgeVars, handoff, child, childCode,
                   feedbackResult, inflight, closeTimers, hist>>
    /\ UNCHANGED <<runVars, auxVars>>

\* ws 'close' (888-892): the listeners of the client are removed.
WsDisconnect ==
    /\ child = "listening"
    /\ wsOpen
    /\ wsOpen' = FALSE
    /\ UNCHANGED <<wsSent, logBuffer, isRunning, currentProcess, procs, emitted,
                   kids, platform>>
    /\ UNCHANGED <<serverVars, bridgeVars, handoff, child, childCode,
                   feedbackResult, inflight, closeTimers, hist>>
    /\ UNCHANGED <<runVars, auxVars>>

\* The Command Runner, seen from the session: a command the human runs adds
\* chunks to the log buffer (addLog).
RunnerLogs ==
    /\ child = "listening"
    /\ Len(logBuffer) < MaxLog
    /\ SetPm(addLog(pm, <<"log">>))
    /\ hist' = [hist EXCEPT !.logged = TRUE]
    /\ UNCHANGED <<serverVars, bridgeVars, handoff, child, childCode,
                   feedbackResult, inflight, closeTimers>>
    /\ UNCHANGED <<runVars, auxVars>>

\* POST /api/submit-feedback, 732-742: up to the await of fs.writeJson.
SubmitFeedback ==
    /\ child = "listening"
    /\ hist.writeCalls < MaxSubmits
    /\ \E fb \in Feedbacks :
        LET r == FeedbackResultOf(getLogs(pm), fb) IN
            /\ feedbackResult' = r
            /\ inflight' = inflight (+) One([pc |-> "write", doc |-> JsonStringify(r),
                                                  late |-> closeTimers > 0])
            /\ hist' = [hist EXCEPT !.writeCalls = @ + 1,
                                    !.firstPosted = IF hist.writeCalls = 0 THEN fb ELSE @]
    /\ UNCHANGED <<serverVars, bridgeVars, handoff, child, childCode,
                   closeTimers, runnerVars>>
    /\ UNCHANGED <<runVars, auxVars>>

\* fs.writeJson opens the file for writing: it is truncated.
WriteOpen ==
    /\ child = "listening"
    /\ \E h \in BagToSet(inflight) :
        /\ h.pc = "write"
        /\ inflight' = (inflight (-) One(h)) (+) One([h EXCEPT !.pc = "opened"])
    /\ handoff' = TruncatedFile
    /\ UNCHANGED <<serverVars, bridgeVars, child, childCode, feedbackResult,
                   closeTimers, runnerVars, hist>>
    /\ UNCHANGED <<runVars, auxVars>>

\* fs.writeJson resolves: the document is in the file (742); the handler
\* goes on to await clearFeedbackData (746).
WriteDone ==
    /\ child = "listening"
    /\ \E h \in BagToSet(inflight) :
        /\ h.pc = "opened"
        /\ inflight' = (inflight (-) One(h)) (+) One([h EXCEPT !.pc = "clear"])
        /\ handoff' = WrittenFile(h.doc)
        /\ hist' = [hist EXCEPT !.written = WrittenFile(h.doc)]
    /\ UNCHANGED <<serverVars, bridgeVars, child, childCode, feedbackResult,
                   closeTimers, runnerVars>>
    /\ UNCHANGED <<runVars, auxVars>>

\* fs.writeJson rejects: the catch at 755 answers 500 {success:false}.
WriteFails ==
    /\ child = "listening"
    /\ \E h \in BagToSet(inflight) :
        /\ h.pc \in {"write", "opened"}
        /\ inflight' = inflight (-) One(h)
    /\ UNCHANGED <<serverVars, bridgeVars, handoff, child, childCode,
                   feedbackResult, closeTimers, runnerVars, hist>>
    /\ UNCHANGED <<runVars, auxVars>>

\* clearFeedbackData resolved (it swallows its errors): res.json success
\* (748) and the close is scheduled (751).
SubmitResponds ==
    /\ child = "listening"
    /\ \E h \in BagToSet(inflight) :
        /\ h.pc = "clear"
        /\ inflight' = inflight (-) One(h)
    /\ closeTimers' = closeTimers + 1
    /\ UNCHANGED <<serverVars, bridgeVars, handoff, child, childCode,
                   feedbackResult, runnerVars, hist>>
    /\ UNCHANGED <<runVars, auxVars>>

\* The timer of 751 fires.
CloseTimerFires ==
    /\ child = "listening"
    /\ closeTimers > 0
    /\ Close
    /\ UNCHANGED <<serverVars, bridgeVars, hist>>
    /\ UNCHANGED <<runVars, auxVars>>


\* -------------------------------------------------------- Protocol Server
\* request ids, as JSON texts
Ids == {"1", "0"}

ToolNames == {"interactive_feedback", "other_tool", "constructor"}

\* Names every object inherits from Object.prototype.
ObjectPrototypeNames ==
    {"constructor", "toString", "valueOf", "hasOwnProperty", "__proto__"}

\* this.tools[toolName] (320): the registered tool, an inherited member of
\* the tools object (truthy, with no handler), or undefined.
toolsLookup(name) ==
    IF name = "interactive_feedback" THEN "tool"
    ELSE IF name \in ObjectPrototypeNames THEN "inherited"
    ELSE "undefined"

\* handleToolsCall 320-337: what calling the tool named `name` does.
toolsCallOutcome(name, hasArgs) ==
    IF toolsLookup(name) = "undefined" THEN "invalid_params"
    ELSE IF toolsLookup(name) = "inherited" \/ ~hasArgs THEN "type_error"
    ELSE "launch"

ResultResponse(id, text) ==
    [id |-> id, kind |-> "result", code |-> 0, data |-> "", text |-> text]

ErrorResponse(id, code, data) ==
    [id |-> id, kind |-> "error", code |-> code, data |-> data, text |-> << >>]

NoRequest == [active |-> FALSE, id |-> "undefined", name |-> "", hasArgs |-> FALSE]

\* sendMessage of the response handleRequest returned
Send(resp) == stdout' = Append(stdout, resp)

\* ---------------------------------------------------------- Process Bridge
\* The 'close' listener (62-68): which exit codes resolve the wait.
ExitResolvesAlways(code) == TRUE

ExitResolves(code) == code = "0"

\* handleToolsCall 316-337 with launchFeedbackUI 35-58: a tools/call arrives.
HandleToolsCall ==
    /\ ~request.active
    /\ \E id \in Ids, name \in ToolNames, hasArgs \in BOOLEAN, spawnOk \in BOOLEAN :
        /\ request' = [active |-> TRUE, id |-> id, name |-> name, hasArgs |-> hasArgs]
        /\ IF toolsCallOutcome(name, hasArgs) = "invalid_params"
           THEN /\ Send(ErrorResponse(id, InvalidParamsCode, "Unknown tool"))
                /\ UNCHANGED <<bridgeVars, child, hist>>
           ELSE IF toolsCallOutcome(name, hasArgs) = "type_error"
           THEN \* TypeError inside the try: the catch at 350
                /\ Send(ErrorResponse(id, InternalErrorCode, "Tool execution failed"))
                /\ UNCHANGED <<bridgeVars, child, hist>>
           ELSE IF spawnOk
           THEN /\ bridge' = "wait"
                /\ child' = "loading"
                /\ UNCHANGED <<bridgeError, bridgeResult, stdout, hist>>
           ELSE /\ bridge' = "catch"
                /\ bridgeError' = "spawn"
                /\ hist' = [hist EXCEPT !.spawnFailed = TRUE]
                /\ UNCHANGED <<bridgeResult, child, stdout>>
    /\ UNCHANGED <<handoff, childCode, feedbackResult, inflight, closeTimers,
                   runnerVars>>
    /\ UNCHANGED <<runVars, auxVars>>

\* 'close' of the child (62-68)
BridgeOnClose ==
    /\ bridge = "wait"
    /\ child = "exited"
    /\ IF ExitResolves(childCode)
       THEN bridge' = "read" /\ UNCHANGED bridgeError
       ELSE bridge' = "catch" /\ bridgeError' = "exit"
    /\ UNCHANGED <<serverVars, bridgeResult, handoff, childVars, runnerVars, hist>>
    /\ UNCHANGED <<runVars, auxVars>>

\* fs.readJson(outputFile) (76)
BridgeRead ==
    /\ bridge = "read"
    /\ LET outcome == CASE handoff.state = "absent"  -> "missing"
                        [] handoff.state = "partial" -> "invalid"
                        [] OTHER                     -> "ok"
       IN /\ hist' = [hist EXCEPT !.reads = @ + 1,
                                  !.readOutcome = outcome]
          /\ IF outcome = "ok"
             THEN /\ bridgeResult' = JsonParse(handoff.text)
                  /\ bridge' = "unlink"
                  /\ UNCHANGED bridgeError
             ELSE /\ bridge' = "catch"
                  /\ bridgeError' = IF outcome = "missing" THEN "read" ELSE "parse"
                  /\ UNCHANGED bridgeResult
    /\ UNCHANGED <<serverVars, handoff, childVars, runnerVars>>
    /\ UNCHANGED <<runVars, auxVars>>

\* fs.unlink(outputFile) after the read (79), inside the try
BridgeUnlink ==
    /\ bridge = "unlink"
    /\ \E ok \in BOOLEAN :
        /\ hist' = [hist EXCEPT !.unlinks = Append(@, ok)]
        /\ IF ok
           THEN handoff' = NoFile /\ bridge' = "return" /\ UNCHANGED bridgeError
           ELSE bridge' = "catch" /\ bridgeError' = "unlink" /\ UNCHANGED handoff
    /\ UNCHANGED <<serverVars, bridgeResult, childVars, runnerVars>>
    /\ UNCHANGED <<runVars, auxVars>>

\* the catch block (83-91): unlink, errors ignored, then rethrow
BridgeCatch ==
    /\ bridge = "catch"
    /\ \E ok \in BOOLEAN :
        /\ hist' = [hist EXCEPT !.unlinks = Append(@, ok /\ handoff.state # "absent")]
        /\ handoff' = IF ok THEN NoFile ELSE handoff
    /\ bridge' = "throw"
    /\ UNCHANGED <<serverVars, bridgeError, bridgeResult, childVars, runnerVars>>
    /\ UNCHANGED <<runVars, auxVars>>

\* handleToolsCall 339-360: the handler returned or threw
ToolsCallResponds ==
    /\ bridge \in {"return", "throw"}
    /\ IF bridge = "return"
       THEN Send(ResultResponse(request.id, JsonStringify(bridgeResult)))
       ELSE Send(ErrorResponse(request.id, InternalErrorCode, "Tool execution failed"))
    /\ bridge' = "done"
    /\ UNCHANGED <<request, bridgeError, bridgeResult, handoff, childVars,
                   runnerVars, hist>>
    /\ UNCHANGED <<runVars, auxVars>>

\* ------------------------------------------------------------ MCPServer.run
\* The lines a stdin chunk can hold, by name.
LineNames ==
    {"blank", "malformed", "null", "init", "inited", "list", "bogus", "badver",
     "callCtor", "callFb", "badverInited", "badverCall", "initNoParams",
     "callNoParams", "callNoArgs"}

NullValue == [type |-> "null"]

RequestValue(jsonrpc, id, method, hasParams, caps, name, hasArgs) ==
    [type |-> "object", jsonrpc |-> jsonrpc, id |-> id, method |-> method,
     hasParams |-> hasParams, caps |-> caps, name |-> name, hasArgs |-> hasArgs]

\* JSON.parse(line) (168): the value, or a SyntaxError.
JsonParseLine(l) ==
    CASE l = "malformed" -> [ok |-> FALSE, value |-> NullValue]
      [] l = "null"      -> [ok |-> TRUE, value |-> NullValue]
      [] l = "init"      -> [ok |-> TRUE, value |->
            RequestValue("2.0", "1", "initialize", TRUE, "caps", "", FALSE)]
      [] l = "inited"    -> [ok |-> TRUE, value |->
            RequestValue("2.0", "undefined", "initialized", FALSE, "", "", FALSE)]
      [] l = "list"      -> [ok |-> TRUE, value |->
            RequestValue("2.0", "1", "tools/list", FALSE, "", "", FALSE)]
      [] l = "bogus"     -> [ok |-> TRUE, value |->
            RequestValue("2.0", "0", "bogus", FALSE, "", "", FALSE)]
      [] l = "badver"    -> [ok |-> TRUE, value |->
            RequestValue("1.0", "1", "initialize", TRUE, "caps", "", FALSE)]
      [] l = "callCtor"  -> [ok |-> TRUE, value |->
            RequestValue("2.0", "1", "tools/call", TRUE, "", "constructor", TRUE)]
      [] l = "callFb"    -> [ok |-> TRUE, value |->
            RequestValue("2.0", "1", "tools/call", TRUE, "", "interactive_feedback", TRUE)]
      [] l = "badverInited" -> [ok |-> TRUE, value |->
            RequestValue("undefined", "undefined", "initialized", FALSE, "", "", FALSE)]
      [] l = "badverCall"   -> [ok |-> TRUE, value |->
            RequestValue("1.0", "1", "tools/call", TRUE, "", "interactive_feedback", TRUE)]
      [] l = "initNoParams" -> [ok |-> TRUE, value |->
            RequestValue("2.0", "1", "initialize", FALSE, "", "", FALSE)]
      [] l = "callNoParams" -> [ok |-> TRUE, value |->
            RequestValue("2.0", "1", "tools/call", FALSE, "", "", FALSE)]
      [] l = "callNoArgs"   -> [ok |-> TRUE, value |->
            RequestValue("2.0", "1", "tools/call", TRUE, "", "interactive_feedback", FALSE)]

\* request.id || null
IdOrNull(id) == IF id \in {"0", "", "null", "undefined"} THEN "null" ELSE id

Sends(resp)  == [kind |-> "send", resp |-> resp,
                 initialized |-> initialized, caps |-> clientCapabilities]
SendsNothing(init, caps) ==
    [kind |-> "none", resp |-> ErrorResponse("null", 0, ""),
     initialized |-> init, caps |-> caps]
Throws       == [SendsNothing(initialized, clientCapabilities) EXCEPT !.kind = "throw"]
Awaits       == [SendsNothing(initialized, clientCapabilities) EXCEPT !.kind = "await"]

\* handleInitialize (272-288)
handleInitialize(r) ==
    IF ~r.hasParams
    THEN Throws
    ELSE [Sends(ResultResponse(r.id, <<"initialize">>)) EXCEPT
            !.caps = IF r.caps = "undefined" THEN "{}" ELSE r.caps]

\* handleToolsList (295-309)
handleToolsList(r) == Sends(ResultResponse(r.id, <<"tools">>))

\* handleToolsCall (316-361), up to the await of the handler
handleToolsCall(r) ==
    IF ~r.hasParams THEN Throws
    ELSE CASE toolsCallOutcome(r.name, r.hasArgs) = "invalid_params" ->
                Sends(ErrorResponse(r.id, InvalidParamsCode, "Unknown tool"))
           [] toolsCallOutcome(r.name, r.hasArgs) = "type_error" ->
                Sends(ErrorResponse(r.id, InternalErrorCode, "Tool execution failed"))
           [] OTHER -> Awaits

\* The default case of the switch (244-253)
unknownMethodSilent(r) == SendsNothing(initialized, clientCapabilities)

unknownMethod(r) ==
    Sends(ErrorResponse(IdOrNull(r.id), MethodNotFoundCode, "Unknown method"))

\* request.jsonrpc !== '2.0' (215)
versionAny(r) == TRUE

versionOk(r) == r.jsonrpc = "2.0"

\* handleRequest (213-265).  A throw inside the try is answered by the catch
\* at 254 with request.id || null; for a request that is null, reading
\* request.id throws again and the error leaves handleRequest.
handleRequest(r) ==
    IF r.type = "null" THEN Throws
    ELSE IF ~versionOk(r)
    THEN Sends(ErrorResponse(IdOrNull(r.id), InvalidRequestCode, "Invalid JSON-RPC version"))
    ELSE LET o == CASE r.method = "initialize"  -> handleInitialize(r)
                    [] r.method = "initialized" -> SendsNothing(TRUE, clientCapabilities)
                    [] r.method = "tools/list"  -> handleToolsList(r)
                    [] r.method = "tools/call"  -> handleToolsCall(r)
                    [] OTHER -> unknownMethod(r)
         IN  IF o.kind = "throw"
             THEN Sends(ErrorResponse(IdOrNull(r.id), InternalErrorCode, "TypeError"))
             ELSE o

IdleHandler == [n |-> 0, state |-> "idle", lines |-> << >>, pos |-> 0,
                out |-> << >>, awaitId |-> "undefined"]

Write(h, resp) == [h EXCEPT !.out = Append(@, [line |-> h.pos + 1, resp |-> resp])]

onParseFailureGoesOn(h) ==
    [Write(h, ErrorResponse("null", ParseErrorCode, "Parse error")) EXCEPT !.pos = @ + 1]

\* The catch of the 'data' handler (175-187): one Parse error response with a
\* null id; the for loop is left, the lines after this one are not looked at.
onParseFailure(h) ==
    [Write(h, ErrorResponse("null", ParseErrorCode, "Parse error")) EXCEPT
        !.state = "aborted", !.pos = @ + 1]

\* One round of the for loop (166-174) on line l.
loopBody(h, l) ==
    IF l = "blank"
    THEN [h EXCEPT !.pos = @ + 1]
    ELSE IF ~JsonParseLine(l).ok
    THEN onParseFailure(h)
    ELSE LET o == handleRequest(JsonParseLine(l).value) IN
         CASE o.kind = "throw" -> onParseFailure(h)
           [] o.kind = "send"  -> [Write(h, o.resp) EXCEPT !.pos = @ + 1]
           [] o.kind = "none"  -> [h EXCEPT !.pos = @ + 1]
           [] o.kind = "await" ->
                [h EXCEPT !.state = "waiting",
                          !.awaitId = JsonParseLine(l).value.id]

\* What is kept of a handler while it is suspended in the await of 170: the
\* chunk it belongs to, the position of its loop and the id to answer.  The
\* lines it has dealt with are kept as "past" and their responses, already
\* on stdout, are dropped from its record.
Suspended(h) ==
    [h EXCEPT !.lines = [k \in DOMAIN h.lines |->
                            IF k <= h.pos THEN "past" ELSE h.lines[k]],
              !.out = << >>]

EventLoopBlocked == cur.state \in {"idle", "done"} /\ waiting = {}

\* No handler is running: a handler suspended in an await has given the event
\* loop back.
EventLoopFree == cur.state \in {"idle", "done"}

\* process.stdin 'data' (162): a chunk arrives and its handler starts.
OnData ==
    /\ EventLoopFree
    /\ runHist.nData < MaxData
    /\ cur' = [IdleHandler EXCEPT !.n = runHist.nData + 1, !.state = "running"]
    /\ runHist' = [runHist EXCEPT !.nData = @ + 1]
    /\ UNCHANGED <<initialized, clientCapabilities, waiting, sessionVars, auxVars>>

\* The loop takes the next line of the chunk.
NextLine ==
    /\ cur.state = "running"
    /\ Len(cur.lines) < MaxLines
    /\ \E l \in LineNames :
        LET h == [cur EXCEPT !.lines = Append(@, l)]
            o == IF l # "blank" /\ JsonParseLine(l).ok
                 THEN handleRequest(JsonParseLine(l).value)
                 ELSE Throws
            g == loopBody(h, l)
        IN  /\ IF g.state = "waiting"
               THEN cur' = IdleHandler /\ waiting' = waiting \cup {Suspended(g)}
               ELSE cur' = g /\ waiting' = waiting
            /\ initialized' = o.initialized
            /\ clientCapabilities' = o.caps
            /\ runHist' = [runHist EXCEPT
                    !.abortedChunk = IF g.state = "aborted" /\ @ = 0 THEN g.n ELSE @]
    /\ UNCHANGED <<sessionVars, auxVars>>

\* A line of the chunk that stands after the one the loop was left at.
SkippedLine ==
    /\ cur.state = "aborted"
    /\ Len(cur.lines) < MaxLines
    /\ \E l \in LineNames : cur' = [cur EXCEPT !.lines = Append(@, l)]
    /\ UNCHANGED <<initialized, clientCapabilities, waiting, runHist, sessionVars, auxVars>>

\* The chunk has no more lines: the handler returns.
EndOfChunk ==
    /\ cur.state \in {"running", "aborted"}
    /\ cur.lines # << >>
    /\ cur' = [cur EXCEPT !.state = "done"]
    /\ UNCHANGED <<initialized, clientCapabilities, waiting, runHist, sessionVars, auxVars>>

\* The tool handler (launchFeedbackUI) settles: handleToolsCall 339-360
\* answers, and the loop of that chunk goes on.
ToolSettles ==
    /\ EventLoopFree
    /\ \E h \in waiting, ok \in BOOLEAN :
        /\ waiting' = waiting \ {h}
        /\ cur' = [Write(h,
                     IF ok THEN ResultResponse(h.awaitId,
                                    JsonStringify(FeedbackResultOf(<< >>, <<"ok">>)))
                     ELSE ErrorResponse(h.awaitId, InternalErrorCode,
                                        "Tool execution failed"))
                   EXCEPT !.state = "running", !.pos = @ + 1]
    /\ UNCHANGED <<initialized, clientCapabilities, runHist, sessionVars, auxVars>>

\* ------------------------------------------------------ interactiveFeedback
\* A string is a sequence of characters: a letter, a space, a line feed, a
\* carriage return.
Chars == {"a", "sp", "nl", "cr"}

\* What String.prototype.trim removes
WhiteSpace == {"sp", "nl", "cr"}

RECURSIVE Strings(_)
Strings(n) ==
    IF n = 0 THEN {<< >>}
    ELSE Strings(n - 1) \cup {Append(t, c) : t \in Strings(n - 1), c \in Chars}

RECURSIVE SplitFirst(_)
\* text.split('\n')[0]
SplitFirst(text) ==
    IF text = << >> \/ Head(text) = "nl" THEN << >>
    ELSE <<Head(text)>> \o SplitFirst(Tail(text))

RECURSIVE TrimStart(_)
TrimStart(text) ==
    IF text # << >> /\ Head(text) \in WhiteSpace THEN TrimStart(Tail(text)) ELSE text

RECURSIVE TrimEnd(_)
TrimEnd(text) ==
    IF text # << >> /\ text[Len(text)] \in WhiteSpace
    THEN TrimEnd(SubSeq(text, 1, Len(text) - 1))
    ELSE text

\* String.prototype.trim
Trim(text) == TrimEnd(TrimStart(text))

firstLineUntrimmed(text) ==
    IF text = << >> \/ text = Undefined THEN << >> ELSE SplitFirst(text)

\* firstLine (22-27)
firstLine(text) ==
    IF text = << >> \/ text = Undefined THEN << >> ELSE Trim(SplitFirst(text))

NoArgs == [project_directory |-> Undefined, summary |-> Undefined]

\* interactiveFeedback (100-106): what launchFeedbackUI is called with, and
\* puts after --project-directory and --prompt (47-52).
InteractiveFeedback ==
    /\ childArgs = NoArgs
    /\ childArgs' = [project_directory |-> firstLine(toolArgs.project_directory),
                     summary |-> firstLine(toolArgs.summary)]
    /\ UNCHANGED <<toolArgs, browseVars, portVars, configVars, callVars, sharedVars, stdinVars, sessionVars, runVars>>

\* ---------------------------------------------------- GET /api/browse-files
\* Names of directories, and the characters they are written with.
Names == {"h", "p", "pq", "e", "ig"}

CharsOf(name) ==
    CASE name = "pq" -> <<"p", "q">>
      [] name = "ig" -> <<"i", "g">>
      [] name = ".." -> <<".", ".">>
      [] OTHER       -> <<name>>

\* The directories that exist, each as the names from the root down.
Directories ==
    {<< >>, <<"h">>, <<"h", "p">>, <<"h", "p", "e">>, <<"h", "p", "ig">>,
     <<"h", "pq">>, <<"h", "pq", "e">>, <<"e">>, <<"e", "p">>}

\* this.projectDirectory
projectDirectory == <<"h", "p">>

\* What a requested path is made of.
Components == {"..", "p", "pq", "e"}

RECURSIVE Paths(_)
Paths(n) ==
    IF n = 0 THEN {<< >>}
    ELSE Paths(n - 1) \cup {Append(t, c) : t \in Paths(n - 1), c \in Components}

RECURSIVE Normalize(_, _)
\* path.join / path.resolve: the components applied to an absolute path;
\* ".." goes one up and stays at the root.
Normalize(base, comps) ==
    IF comps = << >> THEN base
    ELSE IF Head(comps) = ".."
    THEN Normalize(IF base = << >> THEN base ELSE SubSeq(base, 1, Len(base) - 1),
                   Tail(comps))
    ELSE Normalize(Append(base, Head(comps)), Tail(comps))

RECURSIVE PathString(_)
\* An absolute path as the string path.resolve returns.
PathString(segs) ==
    IF segs = << >> THEN << >>
    ELSE PathString(SubSeq(segs, 1, Len(segs) - 1)) \o <<"/">> \o CharsOf(segs[Len(segs)])

ResolvedString(segs) == IF segs = << >> THEN <<"/">> ELSE PathString(segs)

\* String.prototype.startsWith
startsWith(str, prefix) ==
    Len(prefix) <= Len(str) /\ SubSeq(str, 1, Len(prefix)) = prefix

\* The security check of 771: resolvedPath.startsWith(resolvedProjectDir)
withinProject(resolved) ==
    startsWith(ResolvedString(resolved), ResolvedString(projectDirectory))

\* fs.readdir(fullPath): the names in a directory
readdir(dir) ==
    {d[Len(d)] : d \in {x \in Directories : Len(x) = Len(dir) + 1
                                            /\ SubSeq(x, 1, Len(dir)) = dir}}

\* GitIgnoreParser.shouldIgnore for a project whose .gitignore holds "ig"
shouldIgnore(itemPath) == \E k \in DOMAIN itemPath : itemPath[k] = "ig"

\* GitIgnoreParser.filterItems
filterItems(items, currentPath) ==
    {name \in items : ~shouldIgnore(Append(currentPath, name))}

NoResponse == [status |-> 0, items |-> {}]

\* The handler of GET /api/browse-files (760-818) for the path `comps`.
browseFiles(comps) ==
    LET resolved == Normalize(projectDirectory, comps) IN
    IF ~withinProject(resolved)
    THEN [status |-> 403, items |-> {}]
    ELSE IF resolved \notin Directories
    THEN [status |-> 404, items |-> {}]
    ELSE [status |-> 200, items |-> filterItems(readdir(resolved), comps)]

BrowseFiles ==
    /\ child = "listening"
    /\ \E comps \in Paths(MaxDepth) :
        /\ browseReq' = comps
        /\ browseRes' = browseFiles(comps)
    /\ UNCHANGED <<feedbackVars, portVars, configVars, callVars, sharedVars, stdinVars, sessionVars, runVars>>

\* -------------------------------------------------------- WebUIServer.start
\* The ports findAvailablePort(3636, 10) tries.
PortRange == StartPort..(StartPort + MaxAttempts - 1)

portAtNext(i) == StartPort + i + 1

\* const port = startPort + i
portAt(i) == StartPort + i

\* isPortAvailable (543-559): a server can be bound to the port now.
isPortAvailable(port) == port \notin busy

Searching == attempt > 0 \/ availablePort # 0

\* A port changed hands while the server starts: what was bound when the
\* search began no longer tells what is bound.
Changed == [changes |-> portHist.changes + 1, atStart |-> {}]

\* Another process binds a port of the range, or gives one up.  Before the
\* first probe this sets the scene; afterwards it is a change under way.
PortTaken ==
    /\ startResult = "pending"
    /\ Searching => portHist.changes < MaxChanges
    /\ \E q \in PortRange \ busy :
        /\ busy' = busy \cup {q}
        /\ portHist' = IF ~Searching
                       THEN [portHist EXCEPT !.atStart = busy \cup {q}]
                       ELSE Changed
    /\ UNCHANGED <<attempt, availablePort, listenPort, startResult>>
    /\ UNCHANGED <<feedbackVars, browseVars, configVars, callVars, sharedVars, stdinVars, sessionVars, runVars>>

PortReleased ==
    /\ startResult = "pending"
    /\ Searching
    /\ portHist.changes < MaxChanges
    /\ \E q \in busy :
        /\ busy' = busy \ {q}
        /\ portHist' = Changed
    /\ UNCHANGED <<attempt, availablePort, listenPort, startResult>>
    /\ UNCHANGED <<feedbackVars, browseVars, configVars, callVars, sharedVars, stdinVars, sessionVars, runVars>>

\* One round of the loop of findAvailablePort (567-575).
Probe ==
    /\ startResult = "pending"
    /\ availablePort = 0
    /\ attempt < MaxAttempts
    /\ IF isPortAvailable(portAt(attempt))
       THEN availablePort' = portAt(attempt) /\ attempt' = attempt
       ELSE availablePort' = 0 /\ attempt' = attempt + 1
    /\ UNCHANGED <<busy, listenPort, startResult, portHist>>
    /\ UNCHANGED <<feedbackVars, browseVars, configVars, callVars, sharedVars, stdinVars, sessionVars, runVars>>

\* The loop ended without a port: findAvailablePort throws (574), start
\* throws (851-853), run rejects and the process exits with code 1.
NoPortFound ==
    /\ startResult = "pending"
    /\ availablePort = 0
    /\ attempt = MaxAttempts
    /\ startResult' = "failed"
    /\ UNCHANGED <<busy, attempt, availablePort, listenPort, portHist>>
    /\ UNCHANGED <<feedbackVars, browseVars, configVars, callVars, sharedVars, stdinVars, sessionVars, runVars>>

\* this.app.listen(availablePort, 'localhost', ...) (831-848): the server is
\* bound to the port, or the bind fails and startup ends with the error.
Listen ==
    /\ startResult = "pending"
    /\ availablePort # 0
    /\ IF availablePort \notin busy
       THEN /\ busy' = busy \cup {availablePort}
            /\ listenPort' = availablePort
            /\ startResult' = "listening"
       ELSE /\ startResult' = "failed"
            /\ UNCHANGED <<busy, listenPort>>
    /\ UNCHANGED <<attempt, availablePort, portHist>>
    /\ UNCHANGED <<feedbackVars, browseVars, configVars, callVars, sharedVars, stdinVars, sessionVars, runVars>>

\* ------------------------------------------------------------ ConfigManager
\* Two sessions, one after the other.
Sessions == {"A", "B"}

\* Project directories as they are given: "/a/p/" is "/a/p" written with a
\* trailing slash, "/x/p" a directory whose MD5 starts with the same 8 hex
\* digits as that of "/a/p", "/b/q" has them too but another name.
ProjectDirs == {"/a/p", "/a/p/", "/x/p", "/b/q"}

\* path.basename(this.projectDirectory)
basename(dir) == IF dir = "/b/q" THEN "q" ELSE "p"

\* md5(this.projectDirectory), hex, the first 8 characters
shortHash(dir) == IF dir = "/a/p/" THEN "h2" ELSE "h1"

getConfigFileByBasename(dir) == <<basename(dir), "h1">>

\* getConfigFile (52-63): `${projectBasename}_${projectHash}.json`
getConfigFile(dir) == <<basename(dir), shortHash(dir)>>

ConfigFileNames == {getConfigFile(d) : d \in ProjectDirs}

EmptyObject == [k \in {} |-> ""]

\* A file of the config directory: absent, not JSON, or a JSON object.
Absent == [kind |-> "absent", data |-> EmptyObject]
Corrupt == [kind |-> "corrupt", data |-> EmptyObject]
JsonFile(obj) == [kind |-> "json", data |-> obj]

SpreadKeepFirst(a, b) ==
    [k \in DOMAIN a \cup DOMAIN b |-> IF k \in DOMAIN a THEN a[k] ELSE b[k]]

\* { ...a, ...b }
Spread(a, b) ==
    [k \in DOMAIN a \cup DOMAIN b |-> IF k \in DOMAIN b THEN b[k] ELSE a[k]]

\* defaultConfig (74-79)
defaultConfig ==
    [run_command |-> "", execute_automatically |-> "false",
     command_section_visible |-> "false", window_geometry |-> "null"]

loadConfigUnmerged(file) == file.data

\* loadConfig (70-96)
loadConfig(file) ==
    IF file.kind = "json" THEN Spread(defaultConfig, file.data) ELSE defaultConfig

\* The fields a config file holds.
PersistedFields(file) == IF file.kind = "json" THEN file.data ELSE EmptyObject

\* What a config file can hold before the sessions: nothing, something that
\* is not JSON, a record written before a key was added to the schema.
OldFiles == {Absent, Corrupt, JsonFile([run_command |-> "old"])}

\* The command a session saves.
CommandOf(s) == IF s = "A" THEN "cmdA" ELSE "cmdB"

\* req.body of POST /api/config
Bodies(s) ==
    {[run_command |-> CommandOf(s)], [execute_automatically |-> "true"], EmptyObject}

NoAnswer == [op |-> "none", who |-> "A", status |-> 0, config |-> EmptyObject]

\* GET /api/config (676-696)
GetConfig ==
    /\ \E s \in Sessions :
        LET file == configFiles[getConfigFile(managers[s])] IN
        cfgRes' = [op |-> "load", who |-> s, status |-> 200, config |-> loadConfig(file)]
    /\ UNCHANGED <<managers, configFiles, cfgHist, saving>>
    /\ UNCHANGED <<feedbackVars, browseVars, portVars, callVars, sharedVars, stdinVars, sessionVars, runVars>>

\* POST /api/config (699-706) with saveConfig (104-123); fs.writeFile writes
\* the file, or fails and leaves it as it was or cut short.
PostConfig ==
    /\ Len(cfgHist) < MaxSaves
    /\ \E s \in Sessions, wrote \in {"ok", "failed", "cut"} : \E body \in Bodies(s) :
        LET name == getConfigFile(managers[s])
            mergedConfig == Spread(loadConfig(configFiles[name]), body)
        IN  /\ configFiles' = [configFiles EXCEPT ![name] =
                    CASE wrote = "ok"  -> JsonFile(mergedConfig)
                      [] wrote = "cut" -> Corrupt
                      [] OTHER         -> @]
            /\ cfgRes' = [op |-> "save", who |-> s,
                          status |-> IF wrote = "ok" THEN 200 ELSE 500,
                          config |-> EmptyObject]
            /\ cfgHist' = Append(cfgHist,
                    [who |-> s, wrote |-> wrote, body |-> body,
                     cmd |-> IF "run_command" \in DOMAIN body
                             THEN body["run_command"] ELSE "none"])
    /\ UNCHANGED <<managers, saving>>
    /\ UNCHANGED <<feedbackVars, browseVars, portVars, callVars, sharedVars, stdinVars, sessionVars, runVars>>

\* POST /api/config, up to the await of fs.writeFile: saveConfig has loaded
\* the current config (112) and merged the posted one over it (113).
SaveBegins ==
    /\ Len(cfgHist) + Cardinality(saving) < MaxSaves
    /\ \E s \in Sessions : \E body \in Bodies(s) :
        LET file == configFiles[getConfigFile(managers[s])] IN
        saving' = saving \cup
            {[n |-> Len(cfgHist) + Cardinality(saving) + 1, who |-> s, body |-> body,
              mergedConfig |-> Spread(loadConfig(file), body),
              before |-> PersistedFields(file), began |-> Len(cfgHist)]}
    /\ UNCHANGED <<managers, configFiles, cfgRes, cfgHist>>
    /\ UNCHANGED <<feedbackVars, browseVars, portVars, callVars, sharedVars, stdinVars, sessionVars, runVars>>

\* fs.writeFile of a saveConfig call settles (116-122) and POST /api/config
\* answers (701-705).
SaveEnds ==
    /\ \E h \in saving, wrote \in {"ok", "failed", "cut"} :
        LET name == getConfigFile(managers[h.who]) IN
        /\ saving' = saving \ {h}
        /\ configFiles' = [configFiles EXCEPT ![name] =
                CASE wrote = "ok"  -> JsonFile(h.mergedConfig)
                  [] wrote = "cut" -> Corrupt
                  [] OTHER         -> @]
        /\ cfgRes' = [op |-> "save", who |-> h.who,
                      status |-> IF wrote = "ok" THEN 200 ELSE 500,
                      config |-> EmptyObject]
        /\ cfgHist' = Append(cfgHist,
                [who |-> h.who, wrote |-> wrote, body |-> h.body,
                 cmd |-> IF "run_command" \in DOMAIN h.body
                         THEN h.body["run_command"] ELSE "none"])
    /\ UNCHANGED managers
    /\ UNCHANGED <<feedbackVars, browseVars, portVars, callVars, sharedVars, stdinVars, sessionVars, runVars>>

\* ------------------------------------------------- several tools/call
\* The tools/call requests, by the position of their chunk; each is
\* answered under its own id.
Calls == 1..MaxCalls

\* What crypto.randomUUID() can return.
Uuids == 1..MaxCalls

outputFileShared(uuid) == 1

\* path.join(tempDir, `feedback-${uuid}.json`) (39): one file per uuid
outputFile(uuid) == uuid

NoCall == [bridge |-> "none", uuid |-> 0, child |-> "none", port |-> 0,
           code |-> "none", posted |-> Undefined,
           resp |-> ErrorResponse("null", 0, "")]

\* The ports the UI Session Servers of the calls are bound to.
BoundPorts == {calls[c].port : c \in {d \in Calls : calls[d].child \in {"listening", "closing"}}}

\* launchFeedbackUI (35-58): a path with a fresh uuid, a child of its own.
CallSpawn ==
    /\ \E c \in Calls, u \in Uuids :
        /\ calls[c].bridge = "none"
        /\ \A d \in Calls : calls[d].uuid # u
        /\ calls' = [calls EXCEPT ![c] = [@ EXCEPT !.bridge = "wait", !.uuid = u,
                                                   !.child = "started"]]
    /\ UNCHANGED tmpFiles
    /\ UNCHANGED <<feedbackVars, browseVars, portVars, configVars, sharedVars, stdinVars, sessionVars, runVars>>

\* findAvailablePort (567-575) in the child: the lowest port of the range
\* that no server is bound to now.
CallProbe ==
    /\ \E c \in Calls :
        /\ calls[c].child = "started"
        /\ \E port \in PortRange \ BoundPorts :
            /\ \A q \in PortRange \ BoundPorts : port <= q
            /\ calls' = [calls EXCEPT ![c] = [@ EXCEPT !.child = "probed", !.port = port]]
    /\ UNCHANGED tmpFiles
    /\ UNCHANGED <<feedbackVars, browseVars, portVars, configVars, sharedVars, stdinVars, sessionVars, runVars>>

\* app.listen(availablePort) (831-848): the server is bound, or the port
\* has been taken since the probe and the child ends with code 1.
CallListen ==
    /\ \E c \in Calls :
        /\ calls[c].child = "probed"
        /\ calls' = [calls EXCEPT ![c] =
                IF calls[c].port \in BoundPorts
                THEN [@ EXCEPT !.child = "exited", !.code = "1"]
                ELSE [@ EXCEPT !.child = "listening"]]
    /\ UNCHANGED tmpFiles
    /\ UNCHANGED <<feedbackVars, browseVars, portVars, configVars, sharedVars, stdinVars, sessionVars, runVars>>

\* POST /api/submit-feedback in the child of a call (730-751): the result is
\* written to the file of the call and the close is scheduled.
CallSubmit ==
    /\ \E c \in Calls, fb \in {<<"ok">>, <<"no">>} :
        /\ calls[c].child = "listening"
        /\ tmpFiles' = [tmpFiles EXCEPT ![outputFile(calls[c].uuid)] =
                            WrittenFile(JsonStringify(FeedbackResultOf(<< >>, fb)))]
        /\ calls' = [calls EXCEPT ![c] = [@ EXCEPT !.child = "closing", !.posted = fb]]
    /\ UNCHANGED <<feedbackVars, browseVars, portVars, configVars, sharedVars, stdinVars, sessionVars, runVars>>

\* close() of the child (939-950): process.exit(0)
CallClose ==
    /\ \E c \in Calls :
        /\ calls[c].child = "closing"
        /\ calls' = [calls EXCEPT ![c] = [@ EXCEPT !.child = "exited", !.code = "0"]]
    /\ UNCHANGED tmpFiles
    /\ UNCHANGED <<feedbackVars, browseVars, portVars, configVars, sharedVars, stdinVars, sessionVars, runVars>>

\* 'close' of the child (61-68) and, for a code other than 0, the catch
\* (83-91) and the error response of handleToolsCall (350-360).
CallOnClose ==
    /\ \E c \in Calls :
        /\ calls[c].bridge = "wait"
        /\ calls[c].child = "exited"
        /\ IF calls[c].code = "0"
           THEN calls' = [calls EXCEPT ![c] = [@ EXCEPT !.bridge = "read"]] /\ UNCHANGED tmpFiles
           ELSE /\ calls' = [calls EXCEPT ![c] = [@ EXCEPT !.bridge = "done",
                                !.resp = ErrorResponse(c, InternalErrorCode,
                                                       "Tool execution failed")]]
                /\ tmpFiles' = [tmpFiles EXCEPT ![outputFile(calls[c].uuid)] = NoFile]
    /\ UNCHANGED <<feedbackVars, browseVars, portVars, configVars, sharedVars, stdinVars, sessionVars, runVars>>

\* readJson and unlink of the file of the call (76-81), then the response
\* (339-360).
CallRead ==
    /\ \E c \in Calls :
        LET file == tmpFiles[outputFile(calls[c].uuid)] IN
        /\ calls[c].bridge = "read"
        /\ calls' = [calls EXCEPT ![c] = [@ EXCEPT !.bridge = "done",
                        !.resp = IF file.state = "complete"
                                 THEN ResultResponse(c, JsonStringify(JsonParse(file.text)))
                                 ELSE ErrorResponse(c, InternalErrorCode,
                                                    "Tool execution failed")]]
        /\ tmpFiles' = [tmpFiles EXCEPT ![outputFile(calls[c].uuid)] = NoFile]
    /\ UNCHANGED <<feedbackVars, browseVars, portVars, configVars, sharedVars, stdinVars, sessionVars, runVars>>

\* ------------------------------------ UI Session Servers on one machine
\* The server processes; server sv was started with project directory
\* <<"dir", sv>> and prompt <<"prompt", sv>>.
Servers == 1..MaxServers

promptOf(sv) == <<"prompt", sv>>

projectDirectoryOf(sv) == <<"dir", sv>>

\* this.feedbackJsonPath = path.join(__dirname, 'data', 'feedback.json')
\* (454): one file for every server of the installation.
feedbackJsonPath(sv) == 0

\* feedback.json: absent, cut short, or the record written last.
NoFeedbackData == [state |-> "absent", prompt |-> << >>, projectDirectory |-> << >>]
PartialFeedbackData == [NoFeedbackData EXCEPT !.state = "partial"]
FeedbackData(prompt, dir) ==
    [state |-> "complete", prompt |-> prompt, projectDirectory |-> dir]

NoConfigAnswer == [server |-> 0, prompt |-> << >>, projectDirectory |-> << >>]

\* a || b for strings
OrElse(a, b) == IF a = << >> THEN b ELSE a

\* The constructor (448-456, 535) and saveFeedbackData (621-636): the
\* prompt and the project directory are written to feedback.json; an error
\* is logged and nothing else.
ServerStarts ==
    /\ \E sv \in Servers, wrote \in {"ok", "failed", "cut"} :
        /\ servers[sv] = "none"
        /\ servers' = [servers EXCEPT ![sv] = "listening"]
        /\ feedbackJson' = [feedbackJson EXCEPT ![feedbackJsonPath(sv)] =
                CASE wrote = "ok"  -> FeedbackData(promptOf(sv), projectDirectoryOf(sv))
                  [] wrote = "cut" -> PartialFeedbackData
                  [] OTHER         -> @]
    /\ UNCHANGED configAnswer
    /\ UNCHANGED <<feedbackVars, browseVars, portVars, configVars, callVars, stdinVars, sessionVars, runVars>>

\* GET /api/config (676-696): feedback.json is read; what it holds goes
\* before what the server was started with.
ServerGetConfig ==
    /\ \E sv \in Servers :
        LET file == feedbackJson[feedbackJsonPath(sv)]
            data == IF file.state = "complete" THEN file ELSE NoFeedbackData IN
        /\ servers[sv] = "listening"
        /\ configAnswer' = [server |-> sv,
                            prompt |-> OrElse(data.prompt, promptOf(sv)),
                            projectDirectory |->
                                OrElse(data.projectDirectory, projectDirectoryOf(sv))]
    /\ UNCHANGED <<servers, feedbackJson>>
    /\ UNCHANGED <<feedbackVars, browseVars, portVars, configVars, callVars, stdinVars, sessionVars, runVars>>

\* POST /api/submit-feedback (746) with clearFeedbackData (641-657), then
\* the close of the server.
ServerSubmits ==
    /\ \E sv \in Servers, wrote \in {"ok", "failed"} :
        /\ servers[sv] = "listening"
        /\ servers' = [servers EXCEPT ![sv] = "closed"]
        /\ feedbackJson' = [feedbackJson EXCEPT ![feedbackJsonPath(sv)] =
                IF wrote = "ok" THEN FeedbackData(<< >>, << >>) ELSE @]
    /\ UNCHANGED configAnswer
    /\ UNCHANGED <<feedbackVars, browseVars, portVars, configVars, callVars, stdinVars, sessionVars, runVars>>

\* -------------------------------------------------------------------- Spec
NoHist ==
    [nOut |-> 0, logged |-> FALSE, writeCalls |-> 0, firstPosted |-> Undefined, written |-> NoFile,
     reads |-> 0, unlinks |-> << >>, spawnFailed |-> FALSE,
     readOutcome |-> "none"]

InitRun ==
    /\ initialized = FALSE
    /\ clientCapabilities = "null"
    /\ cur = IdleHandler
    /\ waiting = {}
    /\ runHist = [nData |-> 0, abortedChunk |-> 0]

InitSession ==
    /\ request = NoRequest
    /\ stdout = << >>
    /\ bridge = "idle"
    /\ bridgeError = "none"
    /\ bridgeResult = JsonParse(<< >>)
    /\ handoff = NoFile
    /\ child = "none"
    /\ childCode = "none"
    /\ feedbackResult = NoResult
    /\ inflight = EmptyBag
    /\ closeTimers = 0
    /\ logBuffer = << >>
    /\ isRunning = FALSE
    /\ currentProcess = 0
    /\ procs = [p \in Procs |-> "unborn"]
    /\ emitted = << >>
    /\ wsOpen = FALSE
    /\ wsSent = << >>
    /\ kids = [p \in Procs |-> "none"]
    /\ hist = NoHist

InitBrowse ==
    /\ browseReq = << >>
    /\ browseRes = NoResponse

InitPorts ==
    /\ busy = {}
    /\ attempt = 0
    /\ availablePort = 0
    /\ listenPort = 0
    /\ startResult = "pending"
    /\ portHist = [changes |-> 0, atStart |-> {}]

InitConfig ==
    /\ managers = [s \in Sessions |-> "/a/p"]
    /\ configFiles = [f \in ConfigFileNames |-> Absent]
    /\ cfgRes = NoAnswer
    /\ cfgHist = << >>
    /\ saving = {}

InitCalls ==
    /\ calls = [c \in Calls |-> NoCall]
    /\ tmpFiles = [u \in Uuids |-> NoFile]

InitStdin ==
    /\ stdin = << >>
    /\ sent = << >>
    /\ stream = << >>

InitShared ==
    /\ servers = [sv \in Servers |-> "none"]
    /\ feedbackJson = [f \in {feedbackJsonPath(sv) : sv \in Servers} |-> NoFeedbackData]
    /\ configAnswer = NoConfigAnswer

InitAux ==
    /\ toolArgs = NoArgs
    /\ childArgs = NoArgs
    /\ InitBrowse
    /\ InitPorts
    /\ InitConfig
    /\ InitCalls
    /\ InitShared
    /\ InitStdin

Init == InitSession /\ InitRun /\ InitAux /\ platform = "linux"

Next ==
    \/ HandleToolsCall
    \/ BridgeOnClose
    \/ BridgeRead
    \/ BridgeUnlink
    \/ BridgeCatch
    \/ ToolsCallResponds
    \/ ChildBoot
    \/ ChildListen
    \/ ChildStartFails
    \/ ChildSignal
    \/ ChildKilled
    \/ RunnerLogs
    \/ SubmitFeedback
    \/ WriteOpen
    \/ WriteDone
    \/ WriteFails
    \/ SubmitResponds
    \/ CloseTimerFires

Spec == Init /\ [][Next]_vars

\* One tools/call with no signal delivered to either process; the timer of
\* the close, the 'close' event of the child and the continuations of the
\* bridge are run by the event loops once they are due.
NextUnsignalled ==
    \/ HandleToolsCall
    \/ BridgeOnClose
    \/ BridgeRead
    \/ BridgeUnlink
    \/ BridgeCatch
    \/ ToolsCallResponds
    \/ ChildBoot
    \/ ChildListen
    \/ ChildStartFails
    \/ RunnerLogs
    \/ SubmitFeedback
    \/ WriteOpen
    \/ WriteDone
    \/ WriteFails
    \/ SubmitResponds
    \/ CloseTimerFires

SpecFair ==
    /\ Init
    /\ [][NextUnsignalled]_vars
    /\ WF_vars(CloseTimerFires)
    /\ WF_vars(BridgeOnClose)
    /\ WF_vars(BridgeRead)
    /\ WF_vars(BridgeUnlink)
    /\ WF_vars(BridgeCatch)
    /\ WF_vars(ToolsCallResponds)

NextRun ==
    \/ OnData
    \/ NextLine
    \/ SkippedLine
    \/ EndOfChunk
    \/ ToolSettles

SpecRun == Init /\ [][NextRun]_vars

\* A session in which the human runs commands.
NextRunner ==
    \/ HandleToolsCall
    \/ ChildBoot
    \/ ChildListen
    \/ RunCommand
    \/ StopCommand
    \/ ProcData
    \/ ProcError
    \/ ProcClose

SpecRunner == Init /\ [][NextRunner]_vars

\* POST /api/run-command in a session in which few commands are run.
WsRunCommand ==
    /\ procs[MaxWsRuns] = "unborn"
    /\ RunCommand

\* A session on either platform in which the commands spawn processes of
\* their own.
InitStop == InitSession /\ InitRun /\ InitAux /\ platform \in Platforms

NextStop ==
    \/ HandleToolsCall
    \/ ChildBoot
    \/ ChildListen
    \/ RunCommand
    \/ StopCommand
    \/ ProcForks
    \/ ProcData
    \/ ProcError
    \/ ProcClose

SpecStop == InitStop /\ [][NextStop]_vars

\* A session with a WebSocket client, in which commands are run and stopped.
NextWs ==
    \/ HandleToolsCall
    \/ ChildBoot
    \/ ChildListen
    \/ WsConnect
    \/ WsDisconnect
    \/ WsRunCommand
    \/ StopCommand
    \/ ProcData
    \/ ProcError
    \/ ProcClose

SpecWs == Init /\ [][NextWs]_vars

\* A session in which commands are run and stopped and which ends through
\* close(), called by the handler of SIGINT and SIGTERM.
NextClosing ==
    \/ HandleToolsCall
    \/ ChildBoot
    \/ ChildListen
    \/ RunCommand
    \/ StopCommand
    \/ ProcData
    \/ ProcError
    \/ ProcClose
    \/ ChildSignal

SpecClosing == Init /\ [][NextClosing]_vars

\* Several tools/call requests in flight at once.
NextCalls ==
    \/ CallSpawn
    \/ CallProbe
    \/ CallListen
    \/ CallSubmit
    \/ CallClose
    \/ CallOnClose
    \/ CallRead

SpecCalls == Init /\ [][NextCalls]_vars

\* ------------------------------------------------- stdin cut into chunks
\* The client writes each message followed by a line feed; the text of a
\* message is kept as two halves, and no half nor any run of halves other
\* than the two of one message is JSON: a proper prefix of the text of an
\* object or of null lacks its end, a proper suffix its start.
Nl == <<"nl", "nl">>

\* The messages the client writes: those that start no tool handler.
MessageNames == {"init", "inited", "list", "bogus", "badver", "null"}

TextOf(m) == << <<m, "head">>, <<m, "tail">>, Nl >>

RECURSIVE StreamText(_)
StreamText(ms) == IF ms = << >> THEN << >> ELSE TextOf(Head(ms)) \o StreamText(Tail(ms))

RECURSIVE Streams(_)
Streams(n) ==
    IF n = 0 THEN {<< >>}
    ELSE Streams(n - 1) \cup {Append(ms, m) : ms \in Streams(n - 1), m \in MessageNames}

\* The 'data' events of a text that is cut after the positions of cuts.
RECURSIVE ChunksFrom(_, _, _)
ChunksFrom(text, cuts, from) ==
    IF from > Len(text) THEN << >>
    ELSE LET ends == {e \in cuts \cup {Len(text)} : e >= from}
             to   == CHOOSE e \in ends : \A f \in ends : e <= f
         IN  <<SubSeq(text, from, to)>> \o ChunksFrom(text, cuts, to + 1)

\* data.trim() (164)
RECURSIVE TrimData(_)
TrimData(text) ==
    IF text = << >> THEN text
    ELSE IF Head(text) = Nl THEN TrimData(Tail(text))
    ELSE IF text[Len(text)] = Nl THEN TrimData(SubSeq(text, 1, Len(text) - 1))
    ELSE text

\* .split('\n') (164)
RECURSIVE SplitLines(_)
SplitLines(text) ==
    IF \A i \in DOMAIN text : text[i] # Nl THEN <<text>>
    ELSE LET i == CHOOSE i \in DOMAIN text :
                    text[i] = Nl /\ \A j \in 1..(i - 1) : text[j] # Nl
         IN  <<SubSeq(text, 1, i - 1)>> \o SplitLines(SubSeq(text, i + 1, Len(text)))

\* The line as line.trim() (167) and JSON.parse (168) see it.
LineNameOf(line) ==
    IF line = << >> THEN "blank"
    ELSE IF /\ Len(line) = 2
            /\ line[1][1] = line[2][1]
            /\ line[1][2] = "head"
            /\ line[2][2] = "tail"
    THEN line[1][1]
    ELSE "malformed"

\* The for loop (166-174) over the lines of one chunk, until it ends or the
\* catch (175) is entered.
RECURSIVE RunLoop(_, _)
RunLoop(h, lines) ==
    IF h.state # "running" \/ h.pos >= Len(lines) THEN h
    ELSE RunLoop(loopBody(h, LineNameOf(lines[h.pos + 1])), lines)

HandleChunk(data) ==
    RunLoop([IdleHandler EXCEPT !.state = "running"], SplitLines(TrimData(data)))

ResponsesOf(h) == [k \in DOMAIN h.out |-> h.out[k].resp]

\* The outcomes of handleRequest for the lines of a chunk the loop got to.
OutcomesOf(data) ==
    LET lines == SplitLines(TrimData(data))
        names == [k \in 1..HandleChunk(data).pos |-> LineNameOf(lines[k])]
        reqs  == SelectSeq(names, LAMBDA l : l # "blank" /\ JsonParseLine(l).ok)
    IN  [k \in DOMAIN reqs |-> handleRequest(JsonParseLine(reqs[k]).value)]

\* process.stdin 'data' (162-188) for the next chunk of stdin.
ChunkArrives ==
    /\ stdin # << >>
    /\ stdin' = Tail(stdin)
    /\ sent' = sent \o ResponsesOf(HandleChunk(Head(stdin)))
    /\ LET os == OutcomesOf(Head(stdin))
           setCaps == {k \in DOMAIN os : os[k].caps # clientCapabilities}
       IN  /\ initialized' = (initialized \/ \E k \in DOMAIN os : os[k].initialized)
           /\ clientCapabilities' =
                IF setCaps = {} THEN clientCapabilities
                ELSE os[CHOOSE k \in setCaps : \A j \in setCaps : j <= k].caps
    /\ UNCHANGED <<cur, waiting, runHist, stream>>
    /\ UNCHANGED <<sessionVars, feedbackVars, browseVars, portVars, configVars,
                   callVars, sharedVars>>

\* A client that writes up to MaxMsgs messages, which reach the server cut
\* into 'data' events at any places.
InitChunks ==
    /\ InitSession
    /\ InitRun
    /\ platform = "linux"
    /\ toolArgs = NoArgs
    /\ childArgs = NoArgs
    /\ InitBrowse
    /\ InitPorts
    /\ InitConfig
    /\ InitCalls
    /\ InitShared
    /\ sent = << >>
    /\ stream \in Streams(MaxMsgs) \ {<< >>}
    /\ \E cuts \in SUBSET (1..(3 * Len(stream) - 1)) :
        stdin = ChunksFrom(StreamText(stream), cuts, 1)

NextChunks == ChunkArrives

SpecChunks == InitChunks /\ [][NextChunks]_vars

\* One UI Session Server whose save-config requests can overlap.
InitSaves ==
    /\ InitSession
    /\ InitRun
    /\ platform = "linux"
    /\ toolArgs = NoArgs
    /\ childArgs = NoArgs
    /\ InitBrowse
    /\ InitPorts
    /\ InitCalls
    /\ InitShared
    /\ InitStdin
    /\ managers = [s \in Sessions |-> "/a/p"]
    /\ \E old \in OldFiles :
        configFiles = [f \in ConfigFileNames |->
                          IF f = getConfigFile("/a/p") THEN old ELSE Absent]
    /\ cfgRes = NoAnswer
    /\ cfgHist = << >>
    /\ saving = {}

NextSaves ==
    \/ GetConfig
    \/ SaveBegins
    \/ SaveEnds

SpecSaves == InitSaves /\ [][NextSaves]_vars

\* UI Session Servers that start, answer and submit on one machine.
NextShared ==
    \/ ServerStarts
    \/ ServerGetConfig
    \/ ServerSubmits

SpecShared == Init /\ [][NextShared]_vars

\* Two sessions with their project directories and the config files they find.
InitConfigAny ==
    /\ InitSession
    /\ InitRun
    /\ platform = "linux"
    /\ toolArgs = NoArgs
    /\ childArgs = NoArgs
    /\ InitBrowse
    /\ InitPorts
    /\ managers \in {m \in [Sessions -> ProjectDirs] : m["A"] = "/a/p"}
    /\ configFiles \in [ConfigFileNames -> OldFiles]
    /\ cfgRes = NoAnswer
    /\ cfgHist = << >>
    /\ saving = {}
    /\ InitCalls
    /\ InitShared
    /\ InitStdin

NextConfig ==
    \/ GetConfig
    \/ PostConfig

SpecConfig == InitConfigAny /\ [][NextConfig]_vars

\* The start of the UI Session Server, with other processes binding ports.
NextPorts ==
    \/ PortTaken
    \/ PortReleased
    \/ Probe
    \/ NoPortFound
    \/ Listen

SpecPorts == Init /\ [][NextPorts]_vars

\* A session in which the browser lists directories.
NextBrowse ==
    \/ HandleToolsCall
    \/ ChildBoot
    \/ ChildListen
    \/ BrowseFiles

SpecBrowse == Init /\ [][NextBrowse]_vars

\* A call of interactive_feedback with any project_directory and summary.
InitFeedback ==
    /\ InitSession
    /\ InitRun
    /\ platform = "linux"
    /\ toolArgs \in [project_directory : Strings(MaxLen) \cup {Undefined},
                     summary : Strings(MaxLen) \cup {Undefined}]
    /\ childArgs = NoArgs
    /\ InitBrowse
    /\ InitPorts
    /\ InitConfig
    /\ InitCalls
    /\ InitShared
    /\ InitStdin

NextFeedback == InteractiveFeedback

SpecFeedback == InitFeedback /\ [][NextFeedback]_vars


\* ------------------------------------------------------------------ claims
Responded == stdout # << >>

BothKeys == {"command_logs", "interactive_feedback"}

\* C1: the handoff file is read only after the child's exit with code 0 has
\* been observed, and neither a read of the file nor the response to the
\* tools/call happens while the spawned UI Session Server is still running.
C1_ReadOnlyAfterExit ==
    /\ (bridge \in {"read", "unlink", "return"} \/ hist.reads > 0)
            => (child = "exited" /\ childCode = "0")
    /\ Responded => ~ChildRunning

C1_Witness ==
    /\ hist.reads = 1
    /\ hist.written.state = "complete"
    /\ Responded
    /\ childCode = "0"

\* C2: the content text of a success response, JSON-parsed, is the
\* FeedbackResult the UI Session Server wrote to the handoff file; when the
\* human ran no command and submitted the text T once, it is
\* {command_logs: "", interactive_feedback: T}.
C2_ResponseIsFeedbackResult ==
    \A k \in DOMAIN stdout : stdout[k].kind = "result" =>
        /\ hist.written.state = "complete"
        /\ JsonParse(stdout[k].text) = JsonParse(hist.written.text)
        /\ (~hist.logged /\ hist.writeCalls = 1 /\ hist.firstPosted # Undefined)
            => JsonParse(stdout[k].text) =
                    [command_logs |-> << >>, interactive_feedback |-> hist.firstPosted]

C2_Witness ==
    /\ Responded
    /\ stdout[1].kind = "result"
    /\ ~hist.logged
    /\ hist.writeCalls = 1
    /\ hist.firstPosted = <<"ok">>

\* C3: within one session the handoff file is written exactly once and read
\* exactly once, whatever requests the session receives.
C3_WrittenOnceReadOnce ==
    /\ hist.writeCalls <= 1
    /\ hist.reads <= 1
    /\ bridge = "return" => (hist.writeCalls = 1 /\ hist.reads = 1)

\* A submit-feedback handler that started after a submission had succeeded
\* starts or advances in this step.
LateSubmitStep ==
    \E h \in BagToSet(inflight') :
        h.late /\ CopiesIn(h, inflight') > CopiesIn(h, inflight)

\* C4: once a submit-feedback request has succeeded, a later submit-feedback
\* request changes neither the in-memory FeedbackResult nor the handoff file.
C4_LaterSubmitIgnored ==
    [][LateSubmitStep => (feedbackResult' = feedbackResult /\ handoff' = handoff)]_vars

\* C5: when the UI Session Server process exits with code 0 the handoff file
\* exists and holds a complete FeedbackResult; an exit that leaves no such
\* file uses a non-zero code.
C5_ExitZeroMeansFile ==
    (child = "exited" /\ childCode = "0" /\ bridge = "wait")
        => (handoff.state = "complete"
            /\ DOMAIN JsonParse(handoff.text) = BothKeys)

\* C6: the Process Bridge fails exactly when the child exits with a non-zero
\* code, cannot be spawned, or leaves a handoff file that cannot be read and
\* parsed; each failure is answered by exactly one -32603 error response
\* with the request's id.
C6_BridgeFailsOnlyThen ==
    /\ (bridgeError # "none") <=>
            \/ hist.spawnFailed
            \/ (child = "exited" /\ childCode # "0" /\ bridge # "wait")
            \/ hist.readOutcome \in {"missing", "invalid"}
    /\ (bridge = "done" /\ bridgeError # "none") =>
            stdout = <<ErrorResponse(request.id, InternalErrorCode,
                                     "Tool execution failed")>>

\* C7: after exit code 0 and a successful read and parse, a failure of the
\* deletion of the handoff file is swallowed: the tools/call gets the success
\* response with the parsed FeedbackResult.
C7_UnlinkFailureSwallowed ==
    (bridge = "done" /\ hist.readOutcome = "ok") =>
        /\ Len(stdout) = 1
        /\ stdout[1].kind = "result"
        /\ JsonParse(stdout[1].text) = bridgeResult

\* C8: however launchFeedbackUI ends, a deletion of the handoff file was
\* attempted before, the file is gone unless the deletion failed, and the
\* error propagated is the original failure, never a cleanup failure.
C8_CleanupAlwaysAttempted ==
    bridge \in {"return", "throw", "done"} =>
        /\ hist.unlinks # << >>
        /\ (handoff.state = "absent" \/ ~hist.unlinks[Len(hist.unlinks)])
        /\ bridgeError \in {"none", "spawn", "exit", "read", "parse"}

\* Lines whose request is answered with exactly one response as soon as the
\* loop deals with them.
AlwaysAnswered ==
    {"init", "list", "bogus", "badver", "callCtor", "badverInited", "badverCall",
     "initNoParams", "callNoParams", "callNoArgs"}

ResponsesFor(h, k) == SelectSeq(h.out, LAMBDA e : e.line = k)

IsParseError(resp) ==
    resp.kind = "error" /\ resp.code = ParseErrorCode /\ resp.id = "null"

MalformedAt(h) == {k \in DOMAIN h.lines : h.lines[k] = "malformed"}

\* C9: every malformed line is answered with exactly one error
\* -32700 with a null id, and every request line that comes after a malformed
\* line is still answered.
C9_EveryMalformedLineAnswered ==
    cur.state = "done" =>
        \A k \in DOMAIN cur.lines :
            /\ cur.lines[k] = "malformed" =>
                  /\ Len(ResponsesFor(cur, k)) = 1
                  /\ IsParseError(ResponsesFor(cur, k)[1].resp)
            /\ (cur.lines[k] \in AlwaysAnswered /\ \E j \in MalformedAt(cur) : j < k) =>
                  Len(ResponsesFor(cur, k)) = 1

\* C10: a tools/call naming any tool other than interactive_feedback gets the
\* -32602 error, invokes no handler and spawns no child process.
C10_UnknownToolRejected ==
    (request.active /\ request.name # "interactive_feedback") =>
        /\ stdout = <<ErrorResponse(request.id, InvalidParamsCode, "Unknown tool")>>
        /\ child = "none"
        /\ bridge = "idle"

\* The step in which the loop of the running handler deals with line l.
TakesLine(l) ==
    /\ cur.state = "running"
    /\ \/ cur'.n = cur.n /\ cur'.lines = Append(cur.lines, l)
       \/ \E h \in waiting' \ waiting :
            h.n = cur.n /\ Len(h.lines) = Len(cur.lines) + 1 /\ h.lines[Len(h.lines)] = l

BadVersionLines == {"badver", "badverInited", "badverCall"}

ThrowingLines == {"null", "initNoParams", "callNoParams", "callNoArgs", "callCtor"}

\* C12: for an input that parses as JSON, an exception raised during dispatch
\* is answered with exactly one error -32603 carrying the exception message,
\* and the loop goes on with the lines after it.
C12_DispatchExceptionIsInternalError ==
    [][\A l \in ThrowingLines : TakesLine(l) =>
            /\ cur'.state = "running"
            /\ Len(ResponsesFor(cur', Len(cur'.lines))) = 1
            /\ ResponsesFor(cur', Len(cur'.lines))[1].resp.kind = "error"
            /\ ResponsesFor(cur', Len(cur'.lines))[1].resp.code = InternalErrorCode
            /\ ResponsesFor(cur', Len(cur'.lines))[1].resp.data
                    \in {"TypeError", "Tool execution failed"}]_vars

RequestLines ==
    {"init", "list", "callCtor", "callFb", "initNoParams", "callNoParams",
     "callNoArgs", "badver", "badverCall"}

\* C14: no request gets more than one response; when the handler of a chunk
\* has returned, each initialize, tools/list and tools/call request of the
\* chunk has got exactly one response and each initialized notification none.
C14_OneResponsePerRequest ==
    /\ \A k \in DOMAIN cur.lines : Len(ResponsesFor(cur, k)) <= 1
    /\ cur.state = "done" =>
        \A k \in DOMAIN cur.lines :
            /\ cur.lines[k] \in RequestLines => Len(ResponsesFor(cur, k)) = 1
            /\ cur.lines[k] = "inited" => ResponsesFor(cur, k) = << >>

\* r is the first line of text, trimmed: the part of text before its first
\* line feed is r with white space before it and after it, and r neither
\* starts nor ends with white space.
IsTrimmedFirstLine(r, text) ==
    \E n \in 0..Len(text) :
        /\ \A k \in 1..n : text[k] # "nl"
        /\ n = Len(text) \/ text[n + 1] = "nl"
        /\ \E i \in 0..n :
            /\ i + Len(r) <= n
            /\ \A k \in 1..i : text[k] \in WhiteSpace
            /\ \A k \in 1..Len(r) : text[i + k] = r[k]
            /\ \A k \in (i + Len(r) + 1)..n : text[k] \in WhiteSpace
        /\ r # << >> => (r[1] \notin WhiteSpace /\ r[Len(r)] \notin WhiteSpace)

PassedOn(given, passed) ==
    /\ IsTrimmedFirstLine(passed, IF given = Undefined THEN << >> ELSE given)
    /\ \A k \in DOMAIN passed : passed[k] # "nl"
    /\ firstLine(passed) = passed

RunningCommands == {p \in Procs : procs[p] = "alive"}

\* C16: under one Command Runner at most one command is running at any time.
C16_AtMostOneRunning == Cardinality(RunningCommands) <= 1

\* A processStatus event with running:false about command p stands in the
\* events before position i.
StoppedBefore(p, i) ==
    \E j \in 1..(i - 1) : ~emitted[j].running /\ emitted[j].proc = p

\* C17: in the emitted processStatus events, the running:true of a command
\* comes only after a running:false of every command started before it.
C17_FalseBeforeTrue ==
    \A i \in DOMAIN emitted : emitted[i].running =>
        \A j \in 1..(i - 1) : emitted[j].running => StoppedBefore(emitted[j].proc, i)

\* C18: a processStatus event with running:false about a command is emitted
\* only after the 'close' event of that command has fired.
C18_FalseOnlyAfterClose ==
    [][\A p \in Procs :
          (/\ Len(emitted') = Len(emitted) + 1
           /\ ~emitted'[Len(emitted')].running
           /\ emitted'[Len(emitted')].proc = p)
          => procs'[p] = "closed"]_vars

\* The directory lies in the project root: the root's names are its first names.
InsideRoot(resolved) ==
    /\ Len(resolved) >= Len(projectDirectory)
    /\ \A k \in DOMAIN projectDirectory : resolved[k] = projectDirectory[k]

\* C19: a browse-files request whose path resolves to a place outside the
\* project root gets a status other than 200 and no directory entries.
C19_OutsideRootRejected ==
    (browseRes # NoResponse /\ ~InsideRoot(Normalize(projectDirectory, browseReq))) =>
        /\ browseRes.status # 200
        /\ browseRes.items = {}

C20_WitnessTaken ==
    /\ startResult = "failed"
    /\ availablePort = 3636
    /\ listenPort = 0

\* C21: the handoff file never holds a FeedbackResult whose
\* interactive_feedback is empty or missing.
C21_NoEmptyFeedbackInFile ==
    handoff.state = "complete" =>
        /\ "interactive_feedback" \in DOMAIN JsonParse(handoff.text)
        /\ JsonParse(handoff.text)["interactive_feedback"] # << >>


\* Session A saved its command, then session B saved another one, and
\* nothing else was written.
SavedInTurn ==
    cfgHist = << [who |-> "A", wrote |-> "ok", cmd |-> "cmdA",
                  body |-> [run_command |-> "cmdA"]],
                 [who |-> "B", wrote |-> "ok", cmd |-> "cmdB",
                  body |-> [run_command |-> "cmdB"]] >>

\* What reloading the config file of session A shows as run_command.
ReloadedA == loadConfig(configFiles[getConfigFile(managers["A"])])["run_command"]

\* C22 as stated: two sessions against the same project directory keep
\* their commands apart; after A saved and B saved another command, the
\* config file of A still shows the command of A.
C22_SameDirectoryIndependent ==
    (SavedInTurn /\ managers["A"] = managers["B"]) => ReloadedA = "cmdA"

\* C22: after A saved and B saved another command, the config file of A
\* still shows the command of A when the two project directories differ in
\* their base name or in the first 8 hex digits of their MD5, and shows the
\* command of B otherwise, as it does for one and the same directory.
C22_OneRecordPerFileName ==
    SavedInTurn =>
        IF \/ basename(managers["A"]) # basename(managers["B"])
           \/ shortHash(managers["A"]) # shortHash(managers["B"])
        THEN ReloadedA = "cmdA"
        ELSE ReloadedA = "cmdB"

C22_Witness ==
    /\ SavedInTurn
    /\ managers["A"] = "/a/p"
    /\ managers["B"] = "/a/p/"
    /\ ReloadedA = "cmdA"

C22_WitnessShared ==
    /\ SavedInTurn
    /\ managers["A"] = managers["B"]
    /\ ReloadedA = "cmdB"


\* The config file of the session that was answered last.
AnsweredFile == configFiles[getConfigFile(managers[cfgRes.who])]

\* C23: loading a config never fails: it answers the default record for a
\* missing or corrupt file and the fields of a readable file over the
\* defaults; a save whose write fails is answered with an HTTP failure.
C23_LoadNeverFailsSaveReports ==
    /\ cfgRes.op = "load" =>
        /\ cfgRes.status = 200
        /\ AnsweredFile.kind # "json" => cfgRes.config = defaultConfig
        /\ AnsweredFile.kind = "json" =>
            /\ DOMAIN cfgRes.config = DOMAIN defaultConfig \cup DOMAIN AnsweredFile.data
            /\ \A k \in DOMAIN AnsweredFile.data :
                cfgRes.config[k] = AnsweredFile.data[k]
            /\ \A k \in DOMAIN defaultConfig \ DOMAIN AnsweredFile.data :
                cfgRes.config[k] = defaultConfig[k]
    /\ cfgRes.op = "save" =>
        (cfgRes.status = 200 <=> cfgHist[Len(cfgHist)].wrote = "ok")

C23_Witness ==
    /\ cfgRes.op = "load"
    /\ AnsweredFile = JsonFile([run_command |-> "old"])
    /\ cfgRes.config = [defaultConfig EXCEPT !["run_command"] = "old"]

C23_WitnessCorrupt ==
    /\ cfgRes.op = "load"
    /\ AnsweredFile = Corrupt
    /\ cfgRes.config = defaultConfig

C23_WitnessWriteFails ==
    /\ cfgRes.op = "save"
    /\ cfgRes.status = 500
    /\ cfgHist[Len(cfgHist)].wrote = "failed"


\* C24: once a submit-feedback was answered with success, the UI Session
\* Server exits, the bridge reads the handoff file and the tools/call is
\* answered, under fair timers and process events and without signals.
C24_SubmitLeadsToResponse ==
    (child = "listening" /\ closeTimers > 0) ~>
        (child = "exited" /\ hist.reads > 0 /\ bridge = "done" /\ Responded)

C24_Witness ==
    /\ hist.writeCalls > 0
    /\ child = "exited"
    /\ childCode = "0"
    /\ hist.reads > 0
    /\ bridge = "done"
    /\ Responded


\* A submit-feedback request is taken in this step.
Submits == hist'.writeCalls = hist.writeCalls + 1

\* C25: a submission builds the FeedbackResult from the logs of the Command
\* Runner as they are at that moment and from the posted text as it is; when
\* nothing was logged command_logs is "" and interactive_feedback is the
\* posted text.
C25_ResultFromLogsAndText ==
    [][Submits =>
        /\ feedbackResult'.command_logs = Join(logBuffer)
        /\ feedbackResult'.interactive_feedback \in Feedbacks
        /\ hist.writeCalls = 0 =>
            feedbackResult'.interactive_feedback = hist'.firstPosted
        /\ ~hist.logged => feedbackResult'.command_logs = << >>
        /\ \E h \in BagToSet(inflight') :
            /\ h.pc = "write"
            /\ h.doc = JsonStringify(feedbackResult')]_vars

C25_Witness ==
    /\ hist.writeCalls = 1
    /\ hist.logged
    /\ hist.firstPosted = <<"ok">>
    /\ feedbackResult = [command_logs |-> <<"log">>, interactive_feedback |-> <<"ok">>]

C25_WitnessNoCommand ==
    /\ hist.writeCalls = 1
    /\ ~hist.logged
    /\ hist.firstPosted = <<"no">>
    /\ feedbackResult = [command_logs |-> << >>, interactive_feedback |-> <<"no">>]


\* A write of the handoff file that was started and has not settled.
WritesInProgress == {h \in BagToSet(inflight) : h.pc \in {"write", "opened"}}

\* C26: the handoff file is written before the success response is sent and
\* the server closes only afterwards, from the timer; the process never
\* exits while a write of the handoff file is still in progress.
C26_NoExitDuringWrite ==
    [][(child = "listening" /\ child' = "exited") =>
        /\ closeTimers > 0
        /\ WritesInProgress = {}]_vars


\* C27: after the UI Session Server ended through close(), no command its
\* Command Runner started is still running, whatever was run, stopped and
\* exited before.
C27_NoCommandSurvivesClose ==
    (child = "exited" /\ childCode = "0") =>
        \A p \in Procs : procs[p] # "alive"


\* C28 as stated: a chunk with a line that is not JSON gets one -32700 error
\* with a null id as its whole output, and no line of it, before or after
\* that one, has an effect on the server.
C28_WholeChunkRejected ==
    (cur.state = "done" /\ MalformedAt(cur) # {}) =>
        /\ Len(cur.out) = 1
        /\ IsParseError(cur.out[1].resp)
        /\ ~initialized

\* C28: when the loop reaches a line that is not JSON, that line gets one
\* -32700 error with a null id and changes nothing else; from then on no
\* line of the chunk produces a response or changes the server.  The lines
\* before it have been handled, with their responses and their effects.
C28_RestOfChunkDropped ==
    /\ [][TakesLine("malformed") =>
            /\ cur'.state = "aborted"
            /\ cur'.out = Append(cur.out,
                    [line |-> Len(cur'.lines),
                     resp |-> ErrorResponse("null", ParseErrorCode, "Parse error")])
            /\ UNCHANGED <<initialized, clientCapabilities, waiting>>]_vars
    /\ [][(cur.state = "aborted" /\ cur'.n = cur.n) =>
            /\ cur'.state \in {"aborted", "done"}
            /\ cur'.out = cur.out
            /\ UNCHANGED <<initialized, clientCapabilities, waiting>>]_vars
    /\ [][(cur.state = "done" /\ cur'.n = cur.n) => UNCHANGED cur]_vars

C28_Witness ==
    /\ cur.state = "done"
    /\ cur.lines = <<"init", "malformed">>
    /\ Len(cur.out) = 2
    /\ cur.out[1].resp.kind = "result"
    /\ IsParseError(cur.out[2].resp)
    /\ initialized = FALSE
    /\ clientCapabilities = "caps"

C28_WitnessAfter ==
    /\ cur.state = "done"
    /\ cur.lines = <<"malformed", "init">>
    /\ Len(cur.out) = 1
    /\ IsParseError(cur.out[1].resp)
    /\ clientCapabilities = "null"


RECURSIVE IsSubseq(_, _)
\* The elements of a occur in b, in the order of a.
IsSubseq(a, b) ==
    IF a = << >> THEN TRUE
    ELSE IF b = << >> THEN FALSE
    ELSE IF Head(a) = Head(b) THEN IsSubseq(Tail(a), Tail(b))
    ELSE IsSubseq(a, Tail(b))

\* What a step adds to a sequence that only grows.
Added(old, new) == SubSeq(new, Len(old) + 1, Len(new))

OfType(msgs, type) == SelectSeq(msgs, LAMBDA msg : msg.type = type)

\* C29: the first message a WebSocket client gets is the log buffer as it
\* is when it connects; while it is connected it gets after that every
\* processStatus event in the order emitted and every chunk added to the log
\* buffer, in the order added, and no second snapshot.
C29_SnapshotThenEvents ==
    /\ [][(~wsOpen /\ wsOpen') =>
            wsSent' = <<Message("logs", Join(logBuffer), NoStatus)>>]_vars
    /\ [][(wsOpen /\ wsOpen') =>
            LET msgs == Added(wsSent, wsSent')
                logs == OfType(msgs, "log")
                statuses == OfType(msgs, "processStatus") IN
            /\ SubSeq(wsSent', 1, Len(wsSent)) = wsSent
            /\ OfType(msgs, "logs") = << >>
            /\ [k \in DOMAIN statuses |-> statuses[k].status] = Added(emitted, emitted')
            /\ IsSubseq(Added(logBuffer, logBuffer'),
                        [k \in DOMAIN logs |-> logs[k].data])]_vars

C29_Witness ==
    /\ wsOpen
    /\ Len(wsSent) >= 4
    /\ wsSent[1] = Message("logs", <<"$cmd">>, NoStatus)
    /\ wsSent[2] = Message("log", <<"exited">>, NoStatus)
    /\ wsSent[3].type = "processStatus"
    /\ wsSent[3].status = emitted[Len(emitted)]
    /\ logBuffer = << <<"$cmd">>, <<"exited">> >>


\* C30: while a tools/call is suspended in the wait for its child, the event
\* loop is free: a later chunk of stdin is taken, and a request in it is
\* dispatched and answered while the tools/call is still waiting.
C30_LaterChunkAnsweredWhileWaiting ==
    /\ []((waiting # {} /\ cur.state \in {"idle", "done"} /\ runHist.nData < MaxData)
            => ENABLED OnData)
    /\ [][\A l \in AlwaysAnswered \ {"callFb"} :
            (waiting # {} /\ TakesLine(l)) =>
                /\ cur'.n = cur.n
                /\ Len(ResponsesFor(cur', Len(cur'.lines))) = 1
                /\ waiting' = waiting]_vars

C30_Witness ==
    /\ cur.state = "done"
    /\ cur.lines = <<"list">>
    /\ Len(cur.out) = 1
    /\ cur.out[1].resp.kind = "result"
    /\ \E h \in waiting : h.n < cur.n


\* C31: when a save of c has completed, load returns the defaults overlaid
\* by the fields that were persisted when the save read the record overlaid
\* by c: the fields absent from c keep those values, no other file is
\* touched, and a save of the same c that follows a completed one leaves the
\* record as it is.
C31_SaveMerges ==
    [][\A h \in saving :
        (saving' = saving \ {h} /\ cfgHist'[Len(cfgHist')].wrote = "ok") =>
        LET name == getConfigFile(managers[h.who])
            loaded == loadConfig(configFiles'[name]) IN
        /\ DOMAIN loaded = DOMAIN defaultConfig \cup DOMAIN h.before \cup DOMAIN h.body
        /\ \A k \in DOMAIN loaded :
            loaded[k] = IF k \in DOMAIN h.body THEN h.body[k]
                        ELSE IF k \in DOMAIN h.before THEN h.before[k]
                        ELSE defaultConfig[k]
        /\ \A f \in ConfigFileNames \ {name} : configFiles'[f] = configFiles[f]
        /\ (/\ h.began = Len(cfgHist)
            /\ cfgHist # << >>
            /\ cfgHist[Len(cfgHist)].wrote = "ok"
            /\ cfgHist[Len(cfgHist)].body = h.body)
           => configFiles'[name] = configFiles[name]]_vars

C31_Witness ==
    /\ saving = {}
    /\ Len(cfgHist) = 2
    /\ cfgHist[1] = [who |-> "A", wrote |-> "ok", cmd |-> "none",
                     body |-> [execute_automatically |-> "true"]]
    /\ cfgHist[2] = cfgHist[1]
    /\ configFiles[getConfigFile(managers["A"])] =
            JsonFile([defaultConfig EXCEPT !["run_command"] = "old",
                                           !["execute_automatically"] = "true"])


\* C32: stopping a command, by the stop endpoint or by a run that takes its
\* place, ends every process the command has spawned itself.
C32_StopEndsWholeTree ==
    \A i \in DOMAIN emitted :
        emitted[i].why = "stopped" => kids[emitted[i].proc] # "alive"


\* The lines that hold a JSON object.
ObjectLines == LineNames \ {"blank", "malformed", "null"}

\* C33: a response to a request that carries an id carries that id, whether
\* it is a result or an error of any code, also when the id is 0 or "".
C33_ResponseCarriesRequestId ==
    [][\A l \in ObjectLines :
        (TakesLine(l) /\ JsonParseLine(l).value.id # "undefined" /\ cur'.n = cur.n) =>
            LET rs == ResponsesFor(cur', Len(cur'.lines)) IN
            \A k \in DOMAIN rs : rs[k].resp.id = JsonParseLine(l).value.id]_vars


\* C34: with several tools/call in flight at once each call has a handoff
\* file and a child of its own, and the response of each call carries the
\* FeedbackResult submitted in the child of that call.
C34_EachCallGetsItsResult ==
    /\ \A c, d \in Calls :
        (c # d /\ calls[c].uuid # 0 /\ calls[d].uuid # 0) =>
            outputFile(calls[c].uuid) # outputFile(calls[d].uuid)
    /\ \A c \in Calls : calls[c].bridge = "done" =>
        /\ calls[c].resp.id = c
        /\ calls[c].resp.kind = "result"
        /\ calls[c].posted # Undefined
        /\ JsonParse(calls[c].resp.text) = FeedbackResultOf(<< >>, calls[c].posted)


\* C35: once running:true was emitted for the newest command, and as long
\* as no running:false about that command was emitted (it has not closed,
\* errored or been stopped), the runner is in the running state and tracks
\* that command, whatever events of earlier commands came since.
C35_StatusTracksNewestCommand ==
    \A i \in DOMAIN emitted :
        (/\ emitted[i].running
         /\ \A j \in (i + 1)..Len(emitted) :
                ~emitted[j].running => emitted[j].proc # emitted[i].proc
         /\ \A j \in (i + 1)..Len(emitted) : ~emitted[j].running)
        => /\ isRunning
           /\ currentProcess = emitted[i].proc


\* The texts of the 'logs' and 'log' messages sent to the client, in order.
DeliveredTexts ==
    LET texts == SelectSeq(wsSent, LAMBDA msg : msg.type \in {"logs", "log"})
    IN  [k \in DOMAIN texts |-> texts[k].data]

\* C36: for a client that connected before any command was run, the
\* snapshot and the payloads of the log events it got, put together, are the
\* log buffer: each chunk added to the buffer is delivered exactly once.
C36_DeliveredLogsAreBuffer ==
    (wsOpen /\ wsSent[1].data = << >>) => Join(DeliveredTexts) = getLogs(pm)


\* Every submit-feedback request taken so far has failed: none is in
\* flight, none wrote the file, none was answered with success.
AllSubmitsFailed ==
    /\ hist.writeCalls > 0
    /\ child = "listening"
    /\ inflight = EmptyBag
    /\ closeTimers = 0
    /\ hist.written = NoFile

\* C37: a submit-feedback request that failed leaves the session as it was:
\* no FeedbackResult in memory, the server listening, no close scheduled.
C37_FailedSubmitLeavesNoResult ==
    AllSubmitsFailed => feedbackResult = NoResult


\* C38: GET /api/config of a UI Session Server answers with the project
\* directory and the prompt that server was started with, whatever other
\* servers on the machine start or submit meanwhile.
C38_ConfigAnswerIsOwn ==
    configAnswer.server # 0 =>
        /\ configAnswer.prompt = promptOf(configAnswer.server)
        /\ configAnswer.projectDirectory = projectDirectoryOf(configAnswer.server)


\* Two saves with disjoint fields have completed, and no other.
BothSaved ==
    /\ saving = {}
    /\ Len(cfgHist) = 2
    /\ \A k \in 1..2 : cfgHist[k].wrote = "ok" /\ cfgHist[k].who = "A"
    /\ cfgHist[1].body = [run_command |-> "cmdA"]
    /\ cfgHist[2].body = [execute_automatically |-> "true"]

\* C39: when two save-config requests with disjoint fields have completed
\* in one UI Session Server, overlapping or not, the persisted config holds
\* the fields of both.
C39_NoSaveLost ==
    BothSaved =>
        LET loaded == loadConfig(configFiles[getConfigFile(managers["A"])]) IN
        /\ loaded["run_command"] = "cmdA"
        /\ loaded["execute_automatically"] = "true"


RECURSIVE OwnChunkResponses(_)
\* The responses to the messages when each arrives as its own chunk.
OwnChunkResponses(ms) ==
    IF ms = << >> THEN << >>
    ELSE ResponsesOf(HandleChunk(TextOf(Head(ms)))) \o OwnChunkResponses(Tail(ms))

\* C40: whatever the places where stdin is cut into data events, once the
\* chunks have all arrived the responses written are those written when each
\* message arrives as its own chunk ended by a line feed.
C40_ChunkingDoesNotMatter ==
    (stream # << >> /\ stdin = << >>) => sent = OwnChunkResponses(stream)

=============================================================================
